---- MODULE Spec2Model ----
(***************************************************************************)
(* Model of the Elegoo printer-status client of Streamy: the session       *)
(* lifecycle (connect / get_status / disconnect and the websocket          *)
(* callbacks), the inbound dispatch and the tolerant status normalizer.    *)
(*                                                                         *)
(* Three implementations of the session share the state below; `impl`      *)
(* says which class an execution is about:                                 *)
(*   "monitor"  stats.py    PrinterMonitor          (the one main.py uses) *)
(*   "printmon" printmon.py PrinterMonitor                                 *)
(*   "client"   stats.py    ElegooPrinterClient                            *)
(***************************************************************************)
EXTENDS Integers, Sequences, FiniteSets, TLC

\* ------------------------------------------------------------------ bounds
\* length of the longest discovery reply (in bytes)
MaxReply == 3
\* number of containers of one message that hold a PrintInfo or a Temperature
MaxContainers == 2
\* number of WebSocketApp objects one execution may create
MaxConns == 2
\* number of distinct readings datetime.now() can give in one execution
MaxTime == 2
\* number of get_status threads the application may start in one execution
MaxWorkers == 2
\* the largest integer Status code of a print-info payload
MaxCode == 9

\* ------------------------------------------------------- JSON-like values
\* A decoded JSON value is a tagged record [t, v]:
\*   "null" (v = 0), "bool" (v \in BOOLEAN), "int" (v \in Int),
\*   "str" (v = sequence of one-character strings), "arr" (v = sequence of
\*   values), "obj" (v = function from key strings to values),
\*   "inf" (v = 0): the float json.loads gives for Infinity or 1e999.
JNull == [t |-> "null", v |-> 0]
JBool(b) == [t |-> "bool", v |-> b]
JInt(n) == [t |-> "int", v |-> n]
JStr(s) == [t |-> "str", v |-> s]
JArr(a) == [t |-> "arr", v |-> a]
JObj(f) == [t |-> "obj", v |-> f]
JInf == [t |-> "inf", v |-> 0]
EmptyDict == JObj(<<>>)

IsDict(j) == j.t = "obj"
HasKey(j, k) == j.t = "obj" /\ k \in DOMAIN j.v
\* data[k] when it is a dict, else the empty dict (used after an isinstance test)
DictAt(j, k) == IF HasKey(j, k) /\ IsDict(j.v[k]) THEN j.v[k] ELSE EmptyDict

\* ------------------------------------------------------- string helpers
Digits == {"0", "1", "2", "3", "4", "5", "6", "7", "8", "9"}
DigitVal(c) ==
    CASE c = "0" -> 0 [] c = "1" -> 1 [] c = "2" -> 2 [] c = "3" -> 3
      [] c = "4" -> 4 [] c = "5" -> 5 [] c = "6" -> 6 [] c = "7" -> 7
      [] c = "8" -> 8 [] c = "9" -> 9

RECURSIVE DigitsValue(_)
DigitsValue(s) ==
    IF s = <<>> THEN 0
    ELSE 10 * DigitsValue(SubSeq(s, 1, Len(s) - 1)) + DigitVal(s[Len(s)])

AllDigits(s) == s # <<>> /\ \A i \in 1..Len(s) : s[i] \in Digits

\* str.split(sep) for a one-character separator
RECURSIVE Split(_, _)
Split(s, sep) ==
    IF \A i \in 1..Len(s) : s[i] # sep THEN <<s>>
    ELSE LET i == CHOOSE k \in 1..Len(s) :
                      s[k] = sep /\ \A m \in 1..(k - 1) : s[m] # sep
         IN  <<SubSeq(s, 1, i - 1)>> \o Split(SubSeq(s, i + 1, Len(s)), sep)

\* `sub in s` for two strings
IsSubstring(sub, s) ==
    \E i \in 0..(Len(s) - Len(sub)) : SubSeq(s, i + 1, i + Len(sub)) = sub

\* str.lower() on the letters the inputs use
LowerChar(c) ==
    CASE c = "R" -> "r" [] c = "P" -> "p" [] c = "B" -> "b" [] c = "U" -> "u"
      [] c = "N" -> "n" [] c = "I" -> "i" [] c = "G" -> "g" [] c = "S" -> "s"
      [] c = "Y" -> "y" [] c = "T" -> "t" [] OTHER -> c
Lower(s) == [i \in 1..Len(s) |-> LowerChar(s[i])]

\* int(text): optional sign, then decimal digits; anything else is a ValueError
ParseIntStr(s) ==
    IF AllDigits(s) THEN [ok |-> TRUE, val |-> DigitsValue(s)]
    ELSE IF Len(s) >= 2 /\ s[1] = "-" /\ AllDigits(Tail(s))
         THEN [ok |-> TRUE, val |-> 0 - DigitsValue(Tail(s))]
    ELSE IF Len(s) >= 2 /\ s[1] = "+" /\ AllDigits(Tail(s))
         THEN [ok |-> TRUE, val |-> DigitsValue(Tail(s))]
    ELSE [ok |-> FALSE, val |-> 0]

\* int(x) / float(x) of a decoded value; ok = FALSE stands for the
\* ValueError / TypeError the callers catch. Numbers are integers here.
PyInt(j) ==
    CASE j.t = "int" -> [ok |-> TRUE, val |-> j.v]
      [] j.t = "bool" -> [ok |-> TRUE, val |-> IF j.v THEN 1 ELSE 0]
      [] j.t = "str" -> ParseIntStr(j.v)
      [] OTHER -> [ok |-> FALSE, val |-> 0]
\* int(x) of the infinite float raises OverflowError, which none of the
\* `except (ValueError, TypeError)` clauses names
IntOverflows(j) == j.t = "inf"
\* float('inf') stands above every number of the model
Infinity == 1000000000
PyFloat(j) == IF j.t = "inf" THEN [ok |-> TRUE, val |-> Infinity] ELSE PyInt(j)

\* bool(x)
PyBool(j) ==
    CASE j.t = "null" -> FALSE
      [] j.t = "bool" -> j.v
      [] j.t = "int" -> j.v # 0
      [] j.t = "str" -> j.v # <<>>
      [] j.t = "arr" -> j.v # <<>>
      [] j.t = "obj" -> DOMAIN j.v # {}
      [] j.t = "inf" -> TRUE

DigitChar(d) ==
    CASE d = 0 -> "0" [] d = 1 -> "1" [] d = 2 -> "2" [] d = 3 -> "3"
      [] d = 4 -> "4" [] d = 5 -> "5" [] d = 6 -> "6" [] d = 7 -> "7"
      [] d = 8 -> "8" [] d = 9 -> "9"

RECURSIVE NatToChars(_)
NatToChars(n) ==
    IF n < 10 THEN <<DigitChar(n)>>
    ELSE NatToChars(n \div 10) \o <<DigitChar(n % 10)>>

\* str(x) for the scalar values; a container has a repr the model does not
\* spell out
PyStr(j) ==
    CASE j.t = "str" -> j.v
      [] j.t = "int" -> IF j.v < 0 THEN <<"-">> \o NatToChars(0 - j.v)
                                  ELSE NatToChars(j.v)
      [] j.t = "null" -> <<"N", "o", "n", "e">>
      [] j.t = "bool" -> IF j.v THEN <<"T", "r", "u", "e">>
                                 ELSE <<"F", "a", "l", "s", "e">>
      [] j.t = "inf" -> <<"i", "n", "f">>
      [] OTHER -> <<"<", "r", "e", "p", "r", ">">>

\* ------------------------------------------------------------ normalizer
\* The first key of `keys` that is present and converts gives the value
\* (for ... if field in data: try: x = conv(data[field]); break).
Convert(how, x) ==
    CASE how = "int" -> PyInt(x)
      [] how = "float" -> PyFloat(x)
      [] how = "str" -> [ok |-> TRUE, val |-> PyStr(x)]

RECURSIVE FirstConverted(_, _, _, _)
FirstConverted(data, keys, how, default) ==
    IF keys = <<>> THEN default
    ELSE IF HasKey(data, Head(keys)) /\ Convert(how, data.v[Head(keys)]).ok
         THEN Convert(how, data.v[Head(keys)]).val
         ELSE FirstConverted(data, Tail(keys), how, default)

TempDirectKeys ==
    <<"UVTemp", "UV", "uv_temp", "UVTemperature", "LightTemp", "UVPanelTemp",
      "UVPanel">>
TempParentKeys == <<"UV", "UVPanel", "Light">>
TempChildKeys == <<"Temp", "Temperature", "Value", "Current">>

\* the nested probe: every parent in turn; the inner break leaves only the
\* child loop, so a later parent's value replaces an earlier one
RECURSIVE TempNested(_, _, _)
TempNested(data, parents, uv) ==
    IF parents = <<>> THEN uv
    ELSE LET p == Head(parents)
             next == IF HasKey(data, p) /\ IsDict(data.v[p])
                     THEN FirstConverted(data.v[p], TempChildKeys, "float", uv)
                     ELSE uv
         IN  TempNested(data, Tail(parents), next)

Temperature_from_dict(data) ==
    LET direct == FirstConverted(data, TempDirectKeys, "float", 0)
    IN  [uv_temp |-> IF direct = 0 THEN TempNested(data, TempParentKeys, 0)
                                   ELSE direct]

IsPrintingKeys == <<"IsPrinting", "Printing", "isPrinting", "is_printing", "Status">>
ProgressKeys == <<"Progress", "progress", "PrintProgress", "print_progress", "Percent">>
CurrentLayerKeys ==
    <<"CurrentLayer", "Layer", "current_layer", "CurrentLine", "LineNum", "Layers">>
TotalLayerKeys ==
    <<"TotalLayer", "TotalLayers", "MaxLayer", "Lines", "total_layers", "Slices">>
RemainTimeKeys ==
    <<"RemainTime", "TimeLeft", "remain_time", "RemainingTime", "TimeRemaining",
      "PrintTimeLeft", "LeftTime", "remainTime", "leftTime">>
TotalTimeKeys ==
    <<"TotalTime", "total_time", "TotalPrintTime", "PrintTime", "PrintDuration",
      "EstimatedTime", "totalTime", "printTime">>
TaskIdKeys == <<"TaskID", "task_id", "JobID", "PrintID">>
TaskNameKeys == <<"TaskName", "task_name", "FileName", "JobName", "PrintName">>

PrintingWords ==
    { <<"r", "u", "n", "n", "i", "n", "g">>,
      <<"p", "r", "i", "n", "t", "i", "n", "g">>,
      <<"b", "u", "s", "y">> }
PrintingCodes == {1, 2, 3, 4, 7}

\* is_printing / status_code: the first key present decides, then break
RECURSIVE PrintingOf(_, _)
\* a loop that goes on to the later keys when the key found holds a false value
PrintingOf_Continues(data, keys) ==
    IF keys = <<>> THEN [is_printing |-> FALSE, status_code |-> 0]
    ELSE IF ~HasKey(data, Head(keys)) THEN PrintingOf(data, Tail(keys))
    ELSE LET x == data.v[Head(keys)]
         IN  IF Head(keys) = "Status"
             THEN IF x.t = "str"
                  THEN [is_printing |-> Lower(x.v) \in PrintingWords, status_code |-> 0]
                  ELSE IF x.t \in {"int", "bool"}
                  THEN [is_printing |-> PyInt(x).val \in PrintingCodes,
                        status_code |-> PyInt(x).val]
                  ELSE [is_printing |-> FALSE, status_code |-> 0]
             ELSE IF PyBool(x) THEN [is_printing |-> TRUE, status_code |-> 0]
                  ELSE PrintingOf(data, Tail(keys))
PrintingOf(data, keys) ==
    IF keys = <<>> THEN [is_printing |-> FALSE, status_code |-> 0]
    ELSE IF ~HasKey(data, Head(keys)) THEN PrintingOf(data, Tail(keys))
    ELSE LET x == data.v[Head(keys)]
         IN  IF Head(keys) = "Status"
             THEN IF x.t = "str"
                  THEN [is_printing |-> Lower(x.v) \in PrintingWords, status_code |-> 0]
                  ELSE IF x.t \in {"int", "bool"}
                  THEN [is_printing |-> PyInt(x).val \in PrintingCodes,
                        status_code |-> PyInt(x).val]
                  ELSE [is_printing |-> FALSE, status_code |-> 0]
             ELSE [is_printing |-> PyBool(x), status_code |-> 0]

\* a pass that reads "hh:mm:ss" as minutes and seconds only
DurationStep_NoHours(x, running) ==
    IF x.t = "str" /\ \E i \in 1..Len(x.v) : x.v[i] = ":"
    THEN LET parts == Split(x.v, ":")
             ints == [i \in 1..Len(parts) |-> ParseIntStr(parts[i])]
         IN  IF Len(parts) \in {2, 3} /\ \A i \in 1..Len(parts) : ints[i].ok
             THEN [ok |-> TRUE,
                   val |-> ints[Len(parts) - 1].val * 60 + ints[Len(parts)].val]
             ELSE [ok |-> FALSE, val |-> running]
    ELSE IF PyInt(x).ok THEN [ok |-> TRUE, val |-> PyInt(x).val]
                        ELSE [ok |-> FALSE, val |-> running]

\* one pass of the body of the remain_time / total_time loops: the new
\* running value and whether an exception was raised
DurationStep(x, running) ==
    IF x.t = "str" /\ \E i \in 1..Len(x.v) : x.v[i] = ":"
    THEN LET parts == Split(x.v, ":")
             ints == [i \in 1..Len(parts) |-> ParseIntStr(parts[i])]
         IN  IF Len(parts) = 3
             THEN IF \A i \in 1..3 : ints[i].ok
                  THEN [ok |-> TRUE,
                        val |-> ints[1].val * 3600 + ints[2].val * 60 + ints[3].val]
                  ELSE [ok |-> FALSE, val |-> running]
             ELSE IF Len(parts) = 2
             THEN IF \A i \in 1..2 : ints[i].ok
                  THEN [ok |-> TRUE, val |-> ints[1].val * 60 + ints[2].val]
                  ELSE [ok |-> FALSE, val |-> running]
             ELSE [ok |-> TRUE, val |-> running]
    ELSE IF PyInt(x).ok THEN [ok |-> TRUE, val |-> PyInt(x).val]
                        ELSE [ok |-> FALSE, val |-> running]

\* the loop stops at the first key whose pass leaves a value > 0
RECURSIVE DurationOf(_, _, _)
\* a loop that gives up at the first key whose pass raises
DurationOf_StopsAtBad(data, keys, running) ==
    IF keys = <<>> THEN running
    ELSE IF ~HasKey(data, Head(keys)) THEN DurationOf(data, Tail(keys), running)
    ELSE LET r == DurationStep(data.v[Head(keys)], running)
         IN  IF ~r.ok \/ r.val > 0 THEN r.val
             ELSE DurationOf(data, Tail(keys), r.val)
DurationOf(data, keys, running) ==
    IF keys = <<>> THEN running
    ELSE IF ~HasKey(data, Head(keys)) THEN DurationOf(data, Tail(keys), running)
    ELSE LET r == DurationStep(data.v[Head(keys)], running)
         IN  IF r.ok /\ r.val > 0 THEN r.val
             ELSE DurationOf(data, Tail(keys), r.val)

\* Python's // (floor division) by 1000
FloorDiv1000(n) == n \div 1000

FirstStr(data, keys) == FirstConverted(data, keys, "str", <<>>)

\* total_time after "Handle Ticks format"; total0 is what the keys gave
TicksTotal(data, total0) ==
    IF total0 = 0 /\ HasKey(data, "TotalTicks") /\ PyInt(data.v["TotalTicks"]).ok
    THEN FloorDiv1000(PyInt(data.v["TotalTicks"]).val)
    ELSE total0

\* a tick fallback that does not look at what the keys gave
TicksRemain_Always(data, remain0) ==
    IF HasKey(data, "TotalTicks") /\ HasKey(data, "CurrentTicks")
       /\ PyInt(data.v["TotalTicks"]).ok /\ PyInt(data.v["CurrentTicks"]).ok
    THEN FloorDiv1000(PyInt(data.v["TotalTicks"]).val - PyInt(data.v["CurrentTicks"]).val)
    ELSE remain0

\* remain_time after the tick fallback; remain0 is what the keys gave
TicksRemain(data, remain0) ==
    IF remain0 = 0 /\ HasKey(data, "TotalTicks") /\ HasKey(data, "CurrentTicks")
       /\ PyInt(data.v["TotalTicks"]).ok /\ PyInt(data.v["CurrentTicks"]).ok
    THEN FloorDiv1000(PyInt(data.v["TotalTicks"]).val - PyInt(data.v["CurrentTicks"]).val)
    ELSE remain0

\* does a `for field ...: try: x = int(data[field]); break` loop meet the
\* infinite float before a key converts?
RECURSIVE IntLoopRaises(_, _)
IntLoopRaises(data, keys) ==
    IF keys = <<>> THEN FALSE
    ELSE IF ~HasKey(data, Head(keys)) THEN IntLoopRaises(data, Tail(keys))
    ELSE IF IntOverflows(data.v[Head(keys)]) THEN TRUE
    ELSE IF PyInt(data.v[Head(keys)]).ok THEN FALSE
    ELSE IntLoopRaises(data, Tail(keys))

\* the same for the remain_time / total_time loops, which go on until a key
\* leaves a value > 0
RECURSIVE DurationLoopRaises(_, _, _)
DurationLoopRaises(data, keys, running) ==
    IF keys = <<>> THEN FALSE
    ELSE IF ~HasKey(data, Head(keys)) THEN DurationLoopRaises(data, Tail(keys), running)
    ELSE IF IntOverflows(data.v[Head(keys)]) THEN TRUE
    ELSE LET r == DurationStep(data.v[Head(keys)], running)
         IN  IF r.ok /\ r.val > 0 THEN FALSE
             ELSE DurationLoopRaises(data, Tail(keys), r.val)

\* and for the two tick blocks
TicksRaise(data) ==
    \/ /\ DurationOf(data, TotalTimeKeys, 0) = 0
       /\ HasKey(data, "TotalTicks")
       /\ IntOverflows(data.v["TotalTicks"])
    \/ /\ DurationOf(data, RemainTimeKeys, 0) = 0
       /\ HasKey(data, "TotalTicks") /\ HasKey(data, "CurrentTicks")
       /\ \/ IntOverflows(data.v["TotalTicks"])
          \/ PyInt(data.v["TotalTicks"]).ok /\ IntOverflows(data.v["CurrentTicks"])

\* does PrintInfo.from_dict(data) end with an exception?
FromDictRaises(data) ==
    \/ IntLoopRaises(data, CurrentLayerKeys)
    \/ IntLoopRaises(data, TotalLayerKeys)
    \/ DurationLoopRaises(data, RemainTimeKeys, 0)
    \/ DurationLoopRaises(data, TotalTimeKeys, 0)
    \/ TicksRaise(data)

PrintInfo_from_dict(data) ==
    LET p == PrintingOf(data, IsPrintingKeys)
        remain0 == DurationOf(data, RemainTimeKeys, 0)
        total0 == DurationOf(data, TotalTimeKeys, 0)
        total1 == TicksTotal(data, total0)
        remain1 == TicksRemain(data, remain0)
    IN  [is_printing |-> p.is_printing,
         progress |-> FirstConverted(data, ProgressKeys, "float", 0),
         current_layer |-> FirstConverted(data, CurrentLayerKeys, "int", 0),
         total_layer |-> FirstConverted(data, TotalLayerKeys, "int", 0),
         remain_time |-> remain1,
         total_time |-> total1,
         task_id |-> FirstStr(data, TaskIdKeys),
         task_name |-> FirstStr(data, TaskNameKeys),
         status_code |-> p.status_code]

\* PrinterStatus(): the default-valued status
DefaultStatus ==
    [temperature |-> Temperature_from_dict(EmptyDict),
     print_info |-> PrintInfo_from_dict(EmptyDict),
     status_code |-> 0,
     status_text |-> "Unknown"]

StatusKeys == <<"StatusData", "Status", "PrintStatus", "state">>
PrintKeys == <<"PrintInfo", "PrintStatus", "print", "Print">>
TempKeys == <<"Temperature", "Temps", "temp", "temperature">>
DirectFields == {"IsPrinting", "Progress", "CurrentLayer", "TotalLayer"}
DataChars == <<"D", "a", "t", "a">>

\* for k in keys: if k in d and isinstance(d[k], dict): found = d[k]
\* (no break: the last key that matches wins)
RECURSIVE LastDictAt(_, _, _)
LastDictAt(d, keys, found) ==
    IF keys = <<>> THEN found
    ELSE LastDictAt(d, Tail(keys),
                    IF HasKey(d, Head(keys)) /\ IsDict(d.v[Head(keys)])
                    THEN d.v[Head(keys)] ELSE found)

\* Options 1 and 2 of from_json: [exc, pi, temp]
UnderData(data) ==
    LET none == [exc |-> FALSE, pi |-> EmptyDict, temp |-> EmptyDict]
        raise == [exc |-> TRUE, pi |-> EmptyDict, temp |-> EmptyDict]
    IN  IF ~HasKey(data, "Data") THEN none
        ELSE LET d == data.v["Data"]
             IN  CASE d.t \in {"null", "bool", "int", "inf"} -> raise
                   [] d.t = "str" -> IF IsSubstring(DataChars, d.v) THEN raise ELSE none
                   [] d.t = "arr" ->
                        IF \E i \in 1..Len(d.v) : d.v[i] = JStr(DataChars)
                        THEN raise ELSE none
                   [] d.t = "obj" ->
                        LET src == IF HasKey(d, "Data") /\ IsDict(d.v["Data"])
                                   THEN d.v["Data"] ELSE d
                        IN  [exc |-> FALSE,
                             pi |-> DictAt(src, "PrintInfo"),
                             temp |-> DictAt(src, "Temperature")]

\* Option 3: every alternate container in turn, no break
RECURSIVE UnderStatusKeys(_, _, _, _)
UnderStatusKeys(data, keys, pi, temp) ==
    IF keys = <<>> THEN [pi |-> pi, temp |-> temp]
    ELSE LET k == Head(keys)
         IN  IF HasKey(data, k) /\ IsDict(data.v[k])
             THEN UnderStatusKeys(data, Tail(keys),
                                  LastDictAt(data.v[k], PrintKeys, pi),
                                  LastDictAt(data.v[k], TempKeys, temp))
             ELSE UnderStatusKeys(data, Tail(keys), pi, temp)

\* PrinterStatus.from_json applied to the text of a decoded value `data`.
\* A top-level value that is not an object ends in the default status: either
\* nothing matches or a subscript raises and the except returns cls(); so
\* does an exception that leaves PrintInfo.from_dict.
PrinterStatus_from_json(data) ==
    IF ~IsDict(data) THEN DefaultStatus
    ELSE LET o12 == UnderData(data)
             o3 == UnderStatusKeys(data, StatusKeys, o12.pi, o12.temp)
             pi4 == LastDictAt(data, PrintKeys, o3.pi)
             temp4 == LastDictAt(data, TempKeys, o3.temp)
             pi == IF pi4 = EmptyDict /\ DirectFields \cap DOMAIN data.v # {}
                   THEN data ELSE pi4
         IN  IF o12.exc \/ FromDictRaises(pi) THEN DefaultStatus
             ELSE [DefaultStatus EXCEPT
                       !.temperature = Temperature_from_dict(temp4),
                       !.print_info = PrintInfo_from_dict(pi)]

\* ------------------------------------------------- discovery and identity
\* Texts are sequences of one-character strings.  A discovery reply is a
\* sequence of bytes; "xFF" stands for a byte that is not valid UTF-8.
ReplyBytes == {"A", "|", "/", "\"", "\\", "xFF"}
Replies == UNION {[1..n -> ReplyBytes] : n \in 0..MaxReply}
\* data.decode("utf-8") raises UnicodeDecodeError
Undecodable(data) == \E i \in 1..Len(data) : data[i] = "xFF"
\* the addresses set_ip_address is called with
Addresses == {<<"1", ".", "2">>, <<"1", ".", "3">>}

ElegooPrinter == <<"E", "l", "e", "g", "o", "o", "P", "r", "i", "n", "t", "e", "r">>
ElegooName == <<"E", "l", "e", "g", "o", "o", " ", "P", "r", "i", "n", "t", "e", "r">>
ElegooPrinterAPI ==
    <<"E", "l", "e", "g", "o", "o", "P", "r", "i", "n", "t", "e", "r", "A", "P", "I">>

\* Printer(): every field is the empty text
Printer ==
    [id |-> <<>>, name |-> <<>>, ip_address |-> <<>>, model |-> <<>>,
     firmware |-> <<>>, connection |-> <<>>]
\* the basic printer built from the address alone
fallback_printer(ip_address) ==
    [Printer EXCEPT !.name = ElegooName, !.ip_address = ip_address,
                    !.id = ElegooPrinter, !.connection = ElegooPrinterAPI]

\* _save_discovered_printer(data) of a monitor whose address is ip_address
save_discovered_printer(data, ip_address) ==
    IF Undecodable(data) THEN fallback_printer(ip_address)
    ELSE LET parts == Split(data, "|")
             n == Len(parts)
             parsed ==
                 IF \E i \in 1..Len(data) : data[i] = "|"
                 THEN IF n >= 3
                      THEN [Printer EXCEPT
                               !.id = parts[1], !.name = parts[2],
                               !.ip_address = parts[3],
                               !.model = IF n >= 4 THEN parts[4] ELSE <<>>,
                               !.firmware = IF n >= 5 THEN parts[5] ELSE <<>>]
                      ELSE Printer
                 ELSE [Printer EXCEPT !.name = ElegooName,
                                      !.ip_address = ip_address,
                                      !.id = ElegooPrinter]
             located == IF parsed.ip_address = <<>>
                        THEN [parsed EXCEPT !.ip_address = ip_address]
                        ELSE parsed
         IN  [located EXCEPT !.connection = ElegooPrinterAPI]

\* a reply that was received, or none (timeout, socket error)
NoReply == [got |-> FALSE, data |-> <<>>]
Reply(data) == [got |-> TRUE, data |-> data]
\* self.printer after the discovery step of connect(): the discovered
\* printer (a Printer object is always true), else the basic one
DiscoveredPrinter(reply, ip_address) ==
    IF reply.got THEN save_discovered_printer(reply.data, ip_address)
    ELSE fallback_printer(ip_address)

\* url of connect_printer
WsScheme == <<"w", "s", ":", "/", "/">>
WsPath ==
    <<":", "3", "0", "3", "0", "/", "w", "e", "b", "s", "o", "c", "k", "e", "t">>
Url(printer) == WsScheme \o printer.ip_address \o WsPath

\* the payload _send_printer_cmd builds
TopicPrefix == <<"s", "d", "c", "p", "/", "r", "e", "q", "u", "e", "s", "t", "/">>
Payload_TopicByName(printer, cmd, request_id, ts) ==
    [Id |-> printer.connection,
     Data |-> [Cmd |-> cmd, Data |-> EmptyDict, RequestID |-> request_id,
               MainboardID |-> printer.id, TimeStamp |-> ts, From |-> 0],
     Topic |-> TopicPrefix \o printer.name]
Payload(printer, cmd, request_id, ts) ==
    [Id |-> printer.connection,
     Data |-> [Cmd |-> cmd, Data |-> EmptyDict, RequestID |-> request_id,
               MainboardID |-> printer.id, TimeStamp |-> ts, From |-> 0],
     Topic |-> TopicPrefix \o printer.id]

\* json.dumps of a text (without the enclosing quotes): quote and backslash
\* are escaped with a backslash
RECURSIVE JsonDumpsText(_)
JsonDumpsText(s) ==
    IF s = <<>> THEN <<>>
    ELSE (IF s[1] \in {"\"", "\\"} THEN <<"\\", s[1]>> ELSE <<s[1]>>)
         \o JsonDumpsText(Tail(s))
\* json.loads of such a text
RECURSIVE JsonLoadsText(_)
JsonLoadsText(s) ==
    IF s = <<>> THEN <<>>
    ELSE IF s[1] = "\\" /\ Len(s) >= 2
         THEN <<s[2]>> \o JsonLoadsText(SubSeq(s, 3, Len(s)))
         ELSE <<s[1]>> \o JsonLoadsText(Tail(s))
\* json.dumps(payload): the texts as they travel
Dumps(payload) ==
    [Id |-> JsonDumpsText(payload.Id),
     Data |-> [payload.Data EXCEPT
                   !.MainboardID = JsonDumpsText(payload.Data.MainboardID)],
     Topic |-> JsonDumpsText(payload.Topic)]
\* the receiver's reading of the id out of a decoded topic
TopicId(topic) == SubSeq(topic, Len(TopicPrefix) + 1, Len(topic))

IdentSteps == {"off", "start", "discovered", "connected", "failed", "sent"}
RequestIds == {"r1", "r2"}
NoPayload == Payload(Printer, 0 - 1, "none", 0)
\* the identity part of a monitor before connect()
NoIdent ==
    [step |-> "off", ip_address |-> <<>>, reply |-> NoReply,
     printer |-> Printer, url |-> <<>>, cmd |-> 0 - 1, payload |-> NoPayload,
     wire |-> Dumps(NoPayload)]

\* ------------------------------------------------------------ session state
VARIABLES
    impl,               \* which class this execution is about
    ip_set,             \* self.ip_address (monitor) / self.printer.ip_address (client) is set
    is_connected,       \* self.is_connected (monitor) / self.connected (client)
    simulated_mode,     \* self.simulated_mode
    printer_websocket,  \* self.printer_websocket: NoConn or the id of a WebSocketApp
    printer_data,       \* self.printer_data: [status, last_updated]
    conns,              \* the WebSocketApp objects created so far and their threads
    pc,                 \* where the caller of the API is
    ws,                 \* connect's local `ws` (NoConn outside connect)
    event,              \* the client's connection_event of the running connect
    in_connect,         \* the running get_status is the initial one that connect() makes
    attempted,          \* command codes the running get_status called _send_printer_cmd with
    sent,               \* command codes the running get_status handed to the socket
    send_result,        \* how its latest _send_printer_cmd ended: "ok" or the exception
    last_text,          \* the name of the text _parse_response handled last since
                        \* the latest connect() began ("none": no text yet)
    stamping,           \* connections whose thread is inside _status_handler, between
                        \* the write of status and the write of last_updated
    timed_out,          \* connections whose connect() gave up waiting for the open
    workers,            \* main.py: the threads fetch_printer_status started, and
                        \* where each is in its get_status()
    ident,              \* the monitor's address, the discovery reply, self.printer,
                        \* the URL connect_printer opened and the last command
                        \* payload built
    ui,                 \* main.py: whether printer_status_timer is active, and
                        \* whether disconnect_printer ran ("no", or "during" /
                        \* "after" the background connect)
    norm,               \* a payload given to the normalizer, and what it and the
                        \* UI made of it
    ret                 \* what the API call that ended last returned or raised;
                        \* NoReturn while a call is running

vars == <<impl, ip_set, is_connected, simulated_mode, printer_websocket,
          printer_data, conns, pc, ws, event, in_connect, attempted, sent,
          send_result, last_text, stamping, timed_out, workers, norm, ident, ui, ret>>

Impls == {"monitor", "printmon", "client"}
IsMonitor == impl \in {"monitor", "printmon"}
ConnIds == 1..MaxConns
WorkerIds == 1..MaxWorkers
NoConn == 0
\* last_updated = "" of a fresh PrinterData; the clock starts after it
NoTime == 0
\* the readings of datetime.now(), to the second
Times == 1..MaxTime

\* A WebSocketApp and its run_forever(reconnect=1) thread:
\*   "unused"      not created yet
\*   "connecting"  thread running, the socket has never been open
\*   "open"        ws.sock.connected
\*   "retry"       the socket was lost, run_forever is reconnecting
\*   "closing"     close() was called (keep_running False), thread not yet torn down
\*   "dead"        run_forever has returned
ConnStates == {"unused", "connecting", "open", "retry", "closing", "dead"}
LoopRunning(c) == conns[c] \in {"connecting", "open", "retry"}

\* the four polling commands, in the order get_status issues them
Cmds == <<0, 100, 200, 300>>

\* ------------------------------------------------------------ inbound texts
\* A text frame is [wf, val]: wf says whether it is JSON at all, val is what
\* json.loads gives for it.
Text(j) == [wf |-> TRUE, val |-> j]
Malformed == [wf |-> FALSE, val |-> JNull]

TopicStatus == <<"s", "d", "c", "p", "/", "s", "t", "a", "t", "u", "s", "/", "i", "d">>
TopicResponse ==
    <<"s", "d", "c", "p", "/", "r", "e", "s", "p", "o", "n", "s", "e", "/", "i", "d">>
WordStatus == <<"s", "t", "a", "t", "u", "s">>
WordResponse == <<"r", "e", "s", "p", "o", "n", "s", "e">>

PrintInfoA ==
    JObj("Status" :> JInt(2) @@ "CurrentLayer" :> JInt(3) @@ "TotalLayer" :> JInt(10))
PrintInfoB == JObj("Status" :> JInt(0))
BodyA == JObj("Data" :> JObj("PrintInfo" :> PrintInfoA
                             @@ "Temperature" :> JObj("UVTemp" :> JInt(30))))
BodyB == JObj("Data" :> JObj("PrintInfo" :> PrintInfoB))

MsgStatusA == Text(JObj("Topic" :> JStr(TopicStatus) @@ "Data" :> BodyA))
MsgStatusB == Text(JObj("Topic" :> JStr(TopicStatus) @@ "Data" :> BodyB))
MsgResponse == Text(JObj("Topic" :> JStr(TopicResponse) @@ "Data" :> BodyA))
MsgNoTopic == Text(JObj("Data" :> BodyB))

\* more texts, for the dispatch: other topic types, a topic without '/', a
\* status text whose Data is a number, and texts without a Topic
TopicNotice == <<"s", "d", "c", "p", "/", "n", "o", "t", "i", "c", "e", "/", "i", "d">>
TopicError == <<"s", "d", "c", "p", "/", "e", "r", "r", "o", "r", "/", "i", "d">>
TopicOther == <<"s", "d", "c", "p", "/", "a", "t", "t", "r", "/", "i", "d">>
MsgNotice == Text(JObj("Topic" :> JStr(TopicNotice) @@ "Data" :> BodyA))
MsgError == Text(JObj("Topic" :> JStr(TopicError) @@ "Data" :> BodyA))
MsgOther == Text(JObj("Topic" :> JStr(TopicOther) @@ "Data" :> BodyA))
MsgNoSlash == Text(JObj("Topic" :> JStr(WordStatus) @@ "Data" :> BodyA))
MsgStatusNumber == Text(JObj("Topic" :> JStr(TopicStatus) @@ "Data" :> JInt(5)))
BodyC == JObj("PrintInfo" :> PrintInfoA)
MsgStatusC == Text(JObj("Topic" :> JStr(TopicStatus) @@ "StatusData" :> BodyC))
MsgNoTopicC == Text(JObj("StatusData" :> BodyC))
MsgStatusD == Text(JObj("Topic" :> JStr(TopicStatus) @@ "PrintInfo" :> PrintInfoB))
MsgNoTopicD == Text(JObj("PrintInfo" :> PrintInfoB))
MsgNoTopicNoData == Text(JObj("Cmd" :> JInt(0)))
MsgEmptyObject == Text(EmptyDict)
\* valid JSON that is no object
MsgArray == Text(JArr(<<JInt(1)>>))
MsgNumber == Text(JInt(5))
MsgString == Text(JStr(WordStatus))
MsgNull == Text(JNull)
\* objects whose Topic is no text: 5 (true) and 0 (false), around a status body
MsgTopicFive == Text(JObj("Topic" :> JInt(5) @@ "Data" :> BodyA))
MsgTopicZero == Text(JObj("Topic" :> JInt(0) @@ "Data" :> BodyA))

\* the texts a connection delivers, by name
TextOf ==
    "malformed" :> Malformed @@ "status_a" :> MsgStatusA @@ "status_b" :> MsgStatusB
    @@ "response" :> MsgResponse @@ "no_topic" :> MsgNoTopic
    @@ "notice" :> MsgNotice @@ "error" :> MsgError @@ "other" :> MsgOther
    @@ "no_slash" :> MsgNoSlash @@ "status_number" :> MsgStatusNumber
    @@ "status_c" :> MsgStatusC @@ "no_topic_c" :> MsgNoTopicC
    @@ "status_d" :> MsgStatusD @@ "no_topic_d" :> MsgNoTopicD
    @@ "no_topic_no_data" :> MsgNoTopicNoData @@ "empty_object" :> MsgEmptyObject
    @@ "array" :> MsgArray @@ "number" :> MsgNumber @@ "string" :> MsgString
    @@ "null" :> MsgNull @@ "topic_five" :> MsgTopicFive @@ "topic_zero" :> MsgTopicZero
AllInbound == DOMAIN TextOf
\* the texts of the session model: two status texts, so that a stored status
\* can be told from the one stored before it; what a handler does with every
\* other text is the subject of SpecInbound
Inbound == {"status_a", "status_b"}

\* ------------------------------------------------------------ dispatch
\* What _parse_response does with a text:
\*   "bad_json"  json.loads raised JSONDecodeError
\*   "raise"     another exception (data is no dict, Topic is no string)
\*   "status"    routed to _status_handler
\*   "log"       a Topic of another type: logged only
\*   "nothing"   no Topic and none of the keys of the fallback

\* data.get("Topic")
TopicOf(data) == IF HasKey(data, "Topic") THEN data.v["Topic"] ELSE JNull

\* topic.split("/")[1] if len(topic.split("/")) > 1 else ""
TopicType(topic) ==
    LET parts == Split(topic, "/")
    IN  IF Len(parts) > 1 THEN parts[2] ELSE <<>>

\* a dispatch that hands every text with a Topic to _status_handler
TopicRoute_Always(topic_type) == "status"

\* the if / elif chain over topic_type
TopicRoute(topic_type) == IF topic_type = WordStatus THEN "status" ELSE "log"

\* a dispatch without the fallback for texts that have no Topic
FallbackRoute_Never(data) == "nothing"

\* the else branch: no Topic, but maybe one of the keys that carry a status
FallbackRoute(data) ==
    IF HasKey(data, "Data") \/ HasKey(data, "StatusData") \/ HasKey(data, "PrintInfo")
    THEN "status" ELSE "nothing"

Route(text) ==
    IF ~text.wf THEN "bad_json"
    ELSE LET data == text.val
         IN  IF ~IsDict(data) THEN "raise"
             ELSE IF PyBool(TopicOf(data))
                  THEN IF TopicOf(data).t # "str" THEN "raise"
                       ELSE TopicRoute(TopicType(TopicOf(data).v))
                  ELSE FallbackRoute(data)

\* the route and the normalized status of every inbound text, computed once
RouteOf == [name \in AllInbound |-> Route(TextOf[name])]
StatusOf == [name \in AllInbound |-> PrinterStatus_from_json(TextOf[name].val)]

\* how _parse_response routed the text it handled last
LastRoute == IF last_text = "none" THEN "none" ELSE RouteOf[last_text]

\* _status_handler, first write: self.printer_data.status = printer_status
StatusHandled(text) == printer_data' = [printer_data EXCEPT !.status = StatusOf[text]]

\* does _status_handler go on to write last_updated? (the monitor's does)
StampsAfter(text) == IsMonitor /\ RouteOf[text] = "status"

\* the callbacks' effect on the session: on_close / on_error
HandleLost ==
    /\ printer_websocket' = NoConn
    /\ is_connected' = IF IsMonitor THEN is_connected ELSE FALSE

\* _parse_response without its except clauses: whatever json.loads or the
\* dispatch raises leaves the handler, and the transport calls on_error
ParseResponse_Uncaught(text) ==
    LET r == RouteOf[text]
    IN  /\ IF r = "status" THEN StatusHandled(text) ELSE UNCHANGED printer_data
        /\ IF r \in {"raise", "bad_json"}
           THEN HandleLost
           ELSE UNCHANGED <<printer_websocket, is_connected>>

\* _parse_response(text), called by ws_msg_handler on the connection's thread.
\* The client catches JSONDecodeError only: another exception leaves the
\* handler, and the transport reports it through on_error.
ParseResponse(text) ==
    LET r == RouteOf[text]
    IN  /\ IF r = "status" THEN StatusHandled(text) ELSE UNCHANGED printer_data
        /\ IF r = "raise" /\ ~IsMonitor
           THEN HandleLost
           ELSE UNCHANGED <<printer_websocket, is_connected>>

\* ------------------------------------------------------------ the API
Returned(op, val) == [op |-> op, val |-> val]
NoReturn == Returned("none", "none")

\* the variables no API call changes (the application's threads are its own),
\* and the locals of the running call
fixed == <<impl, workers, norm, ident, ui>>
locals == <<ws, event, in_connect, attempted, sent, send_result>>
ReturnLocals ==
    /\ ws' = NoConn
    /\ event' = FALSE
    /\ in_connect' = FALSE
    /\ attempted' = <<>>
    /\ sent' = <<>>
    /\ send_result' = "none"

\* the status connect() of printmon.py installs when it falls back to
\* simulated mode (progress 18.8, kept as the whole number 18)
SimulatedStatus ==
    [DefaultStatus EXCEPT
        !.status_code = 1,
        !.status_text = "Printing",
        !.print_info = [DefaultStatus.print_info EXCEPT
                           !.is_printing = TRUE, !.current_layer = 64,
                           !.total_layer = 341, !.progress = 18]]

\* ------------------------------------------------ payloads for the normalizer
\* the shapes from_json looks for PrintInfo / Temperature in: under Data.Data,
\* under Data, under one of the alternate containers, at the top level
Containers == {"StatusData", "Status", "PrintStatus", "state"}
Shapes == {"data_data", "data", "top"} \cup Containers

\* the message of shape `shape` around a PrintInfo dict P and a Temperature dict T
Wrap(shape, P, T) ==
    LET body == JObj("PrintInfo" :> P @@ "Temperature" :> T)
    IN  CASE shape = "data_data" -> JObj("Data" :> JObj("Data" :> body))
          [] shape = "data" -> JObj("Data" :> body)
          [] shape = "top" -> body
          [] OTHER -> JObj(shape :> body)

\* well-formed PrintInfo dicts: an integer Status and no boolean printing key
\* (with and without layer counts), the one of MsgStatusA, and the empty one
StatusCodes == (0 - 1)..MaxCode
CodePayload(code) == JObj("Status" :> JInt(code))
PrintInfos ==
    {CodePayload(code) : code \in StatusCodes}
    \cup {JObj("Status" :> JInt(3) @@ "CurrentLayer" :> JInt(5) @@ "TotalLayer" :> JInt(10)),
          PrintInfoA, EmptyDict}
\* well-formed Temperature dicts
Temperatures ==
    {EmptyDict, JObj("UVTemp" :> JInt(30)), JObj("UV" :> JObj("Temp" :> JInt(25)))}

\* update_printer_status_ui leaves 8 out of the idle codes
CoarseStatus_Idle0(status_code) ==
    IF status_code = 0 THEN "Idle"
    ELSE IF status_code = 1 THEN "Preparing to print"
    ELSE IF status_code \in {2, 3, 4} THEN "Printing"
    ELSE IF status_code = 7 THEN "Finishing"
    ELSE "Unknown"

\* update_printer_status_ui: the status text for print_info.status_code
CoarseStatus(status_code) ==
    IF status_code \in {0, 8} THEN "Idle"
    ELSE IF status_code = 1 THEN "Preparing to print"
    ELSE IF status_code \in {2, 3, 4} THEN "Printing"
    ELSE IF status_code = 7 THEN "Finishing"
    ELSE "Unknown"

\* ------------------------------------------------ print-info payloads
\* "hh:mm:ss" and "mm:ss" texts, two digits a part
Pad2(n) == IF n < 10 THEN <<"0">> \o NatToChars(n) ELSE NatToChars(n)
HMS(h, m, s) == Pad2(h) \o <<":">> \o Pad2(m) \o <<":">> \o Pad2(s)
MS(m, s) == Pad2(m) \o <<":">> \o Pad2(s)
Hours == {0, 1, 12}
Minutes == {0, 5, 59}
Seconds == {0, 7}
\* the keys the model gives a remaining / total time under
RemainKeysUsed == {"RemainTime", "TimeLeft"}
TotalKeysUsed == {"TotalTime", "PrintTime"}
TimeTexts ==
    {HMS(h, m, s) : h \in Hours, m \in Minutes, s \in Seconds}
    \cup {MS(m, s) : m \in Minutes, s \in Seconds}
\* a payload whose only entry is a time given as text
TextTimePayloads ==
    {JObj(key :> JStr(text)) : key \in RemainKeysUsed \cup TotalKeysUsed, text \in TimeTexts}

\* payloads put together from optional entries: explicit times and ticks
NoEntry == <<>>
RemainParts == {NoEntry, "RemainTime" :> JInt(0), "RemainTime" :> JInt(30)}
TotalParts == {NoEntry, "TotalTime" :> JInt(0), "TotalTime" :> JInt(700)}
TotalTickParts == {NoEntry, "TotalTicks" :> JInt(600000), "TotalTicks" :> JInt(1999)}
CurrentTickParts == {NoEntry, "CurrentTicks" :> JInt(150000)}
TickPayloads ==
    {JObj(r @@ t @@ tt @@ ct) :
        r \in RemainParts, t \in TotalParts, tt \in TotalTickParts,
        ct \in CurrentTickParts}
\* payloads with a number out of the documented range of its field
OutOfRangePayloads ==
    {JObj("RemainTime" :> JInt(0 - 5)), JObj("TotalTime" :> JInt(0 - 7)),
     JObj("CurrentLayer" :> JInt(0 - 3)), JObj("TotalLayer" :> JInt(0 - 2)),
     JObj("Progress" :> JInt(150)), JObj("Progress" :> JInt(0 - 10)),
     JObj("RemainTime" :> JStr(<<"-", "1", ":", "0", "0", ":", "0", "0">>))}
\* payloads for the status panel: a Status code, layer counts whose
\* percentage is a multiple of 25, explicit times, a Progress entry or none
LayerCounts == {<<0, 0>>, <<3, 0>>, <<0, 4>>, <<1, 4>>, <<2, 4>>, <<4, 4>>, <<6, 4>>}
ProgressParts == {NoEntry, "Progress" :> JInt(25)}
PanelPayloads ==
    {JObj("Status" :> JInt(code) @@ "CurrentLayer" :> JInt(l[1])
          @@ "TotalLayer" :> JInt(l[2]) @@ "RemainTime" :> JInt(r)
          @@ "TotalTime" :> JInt(t) @@ g) :
        code \in {0, 2}, l \in LayerCounts, r \in {0, 750}, t \in {0, 1000},
        g \in ProgressParts}
\* payloads with one value that cannot be coerced: a sound payload that
\* uses the later keys of each field (or only a Status, or only TotalTicks),
\* plus a first key of a numeric field with a bad value
SoundPayloads ==
    {JObj("Status" :> JInt(2) @@ "progress" :> JInt(50) @@ "Layer" :> JInt(4)
          @@ "TotalLayers" :> JInt(10) @@ "TimeLeft" :> JInt(30)
          @@ "PrintTime" :> JInt(700)),
     JObj("Status" :> JInt(2)),
     JObj("Status" :> JInt(2) @@ "TotalTicks" :> JInt(600000))}
IntKeys == {"CurrentLayer", "TotalLayer", "RemainTime", "TotalTime", "CurrentTicks"}
FloatKeys == {"Progress"}
\* a non-numeric text, a list, an object, null
Uncoercible == {JStr(<<"a", "b", "c">>), JArr(<<>>), EmptyDict, JNull}
\* ... a time text with a part that is no integer, and for int() also the
\* infinite float
BadValuesOf(k) ==
    Uncoercible
    \cup (IF k \in {"RemainTime", "TotalTime"} THEN {JStr(<<"1", ":", "x">>)} ELSE {})
    \cup (IF k \in IntKeys THEN {JInf} ELSE {})
BadPayloads ==
    UNION {{JObj(base.v @@ (k :> v)) : v \in BadValuesOf(k)} :
              base \in SoundPayloads, k \in IntKeys \cup FloatKeys}
\* payload P without key k
Without(P, k) == JObj([x \in (DOMAIN P.v) \ {k} |-> P.v[x]])
\* the integer under key k of payload P, 0 when the key is absent
IntAt(P, k) == IF HasKey(P, k) THEN P.v[k].v ELSE 0

\* a label of the status panel: a number, or "--"
Unknown == [known |-> FALSE, val |-> 0]
Known(n) == [known |-> TRUE, val |-> n]
Positive(n) == IF n > 0 THEN Known(n) ELSE Unknown

Max(a, b) == IF a >= b THEN a ELSE b
Min(a, b) == IF a <= b THEN a ELSE b

\* update_printer_status_ui, "Check if there's an active print": the local
\* `progress` as the fraction num / den of 100 percent
\* ((current_layer / total_layer) * 100, then max(0, min(100, progress)))
LayerProgress(print_info) ==
    IF print_info.total_layer > 0
    THEN [num |-> Max(0, Min(print_info.total_layer, print_info.current_layer)),
          den |-> print_info.total_layer]
    ELSE [num |-> 0, den |-> 1]

\* the progress labels: f"{progress:.1f}%", to the whole percent
ProgressLabel(print_info) ==
    Known((100 * LayerProgress(print_info).num) \div LayerProgress(print_info).den)

\* "Update time information": the two derivations, in the order of the code;
\* raised says that 100 - progress was 0 in the second one (ZeroDivisionError).
\* int(x) of a non-negative quotient is its floor; the arithmetic is exact for
\* the layer counts of the model, whose percentages are multiples of 25.
DerivedTimes(print_info) ==
    LET g == LayerProgress(print_info)
        total == print_info.total_time
        remain0 == print_info.remain_time
        remain == IF total > 0 /\ remain0 = 0 /\ g.num > 0
                  THEN (total * (g.den - g.num)) \div g.den
                  ELSE remain0
        second == remain > 0 /\ total = 0 /\ g.num > 0
    IN  IF second /\ g.num = g.den
        THEN [raised |-> TRUE, total |-> total, remain |-> remain]
        ELSE [raised |-> FALSE,
              total |-> IF second THEN (remain * g.den) \div (g.den - g.num) ELSE total,
              remain |-> remain]

\* the panel before any update, and after "No active print"
ClearedPanel ==
    [progress |-> Unknown, current_layer |-> Unknown, remain_layers |-> Unknown,
     total_time |-> Unknown, remain_time |-> Unknown, raised |-> FALSE]

\* update_printer_status_ui(printer_data), from "Check if there's an active
\* print" on: what the labels show on a panel that was cleared before. When
\* the slot raises, the time labels keep the "--" they showed.
UpdatePanel(print_info) ==
    IF ~print_info.is_printing THEN ClearedPanel
    ELSE LET t == DerivedTimes(print_info)
         IN  [progress |-> ProgressLabel(print_info),
              current_layer |-> IF print_info.total_layer > 0
                                THEN Known(print_info.current_layer) ELSE Unknown,
              remain_layers |-> IF print_info.total_layer > 0
                                THEN Known(Max(0, print_info.total_layer
                                                  - print_info.current_layer))
                                ELSE Unknown,
              total_time |-> IF t.raised THEN Unknown ELSE Positive(t.total),
              remain_time |-> IF t.raised THEN Unknown ELSE Positive(t.remain),
              raised |-> t.raised]

\* a message of one shape has no parts
NoParts == <<>>
\* no payload given
NoNorm ==
    [shape |-> "none", parts |-> NoParts, P |-> EmptyDict, T |-> EmptyDict, msg |-> EmptyDict,
     done |-> FALSE, status |-> DefaultStatus, raises |-> FALSE,
     print_info |-> DefaultStatus.print_info, status_text |-> "none",
     panel |-> ClearedPanel]

\* the application before connect_to_printer, and right after it started the
\* status timer
UiIdle == [timer |-> FALSE, disconnected |-> "no"]
UiStarted == [timer |-> TRUE, disconnected |-> "no"]

\* a session object right after __init__
FreshSession ==
    /\ impl \in Impls
    /\ ip_set = FALSE
    /\ is_connected = FALSE
    /\ simulated_mode = FALSE
    /\ printer_websocket = NoConn
    /\ printer_data = [status |-> DefaultStatus, last_updated |-> NoTime]
    /\ conns = [c \in ConnIds |-> "unused"]
    /\ pc = "idle"
    /\ ws = NoConn
    /\ event = FALSE
    /\ in_connect = FALSE
    /\ attempted = <<>>
    /\ sent = <<>>
    /\ send_result = "none"
    /\ last_text = "none"
    /\ stamping = {}
    /\ timed_out = {}
    /\ workers = [w \in WorkerIds |-> "unused"]
    /\ ret = NoReturn

Init ==
    /\ FreshSession
    /\ norm = NoNorm
    /\ ident = NoIdent
    /\ ui = UiIdle

\* set_ip_address(ip) of the monitor; discover_printer() of the client, which
\* always leaves self.printer with an address
SetIp ==
    /\ pc = "idle"
    /\ ~ip_set
    /\ ip_set' = TRUE
    /\ UNCHANGED <<fixed, stamping, timed_out, locals, is_connected, simulated_mode, printer_websocket,
                   printer_data, conns, pc, last_text, ret>>

\* connect() without an address
ConnectNoIp ==
    /\ pc = "idle"
    /\ ~ip_set
    /\ ret' = Returned("connect", "False")
    /\ UNCHANGED <<fixed, stamping, timed_out, locals, ip_set, is_connected, simulated_mode,
                   printer_websocket, printer_data, conns, pc, last_text>>

\* connect(): identity chosen, WebSocketApp created and stored, thread started
ConnectStart ==
    /\ pc = "idle"
    /\ ip_set
    /\ \E c \in ConnIds :
          /\ conns[c] = "unused"
          /\ \A d \in ConnIds : d < c => conns[d] # "unused"
          /\ conns' = [conns EXCEPT ![c] = "connecting"]
          /\ printer_websocket' = c
          /\ ws' = c
    /\ pc' = "wait"
    /\ ret' = NoReturn
    /\ last_text' = "none"
    /\ UNCHANGED <<fixed, stamping, timed_out, ip_set, is_connected, simulated_mode, printer_data, event,
                   in_connect, attempted, sent, send_result>>

\* the monitor's wait loop sees ws.sock.connected and sleeps one second
ConnectSeen ==
    /\ pc = "wait"
    /\ IsMonitor
    /\ conns[ws] = "open"
    /\ pc' = "settle"
    /\ UNCHANGED <<fixed, stamping, timed_out, locals, ip_set, is_connected, simulated_mode,
                   printer_websocket, printer_data, conns, last_text, ret>>

\* ... then sets is_connected; connect() goes on with the initial get_status()
ConnectSucceed ==
    /\ pc = "settle"
    /\ is_connected' = TRUE
    /\ pc' = "send"
    /\ in_connect' = TRUE
    /\ ws' = NoConn
    /\ UNCHANGED <<fixed, stamping, timed_out, ip_set, simulated_mode, printer_websocket, printer_data, conns,
                   event, attempted, sent, send_result, last_text, ret>>

\* the client's connection_event.wait returns because on_open set the event
ConnectEvent ==
    /\ pc = "wait"
    /\ ~IsMonitor
    /\ event
    /\ pc' = "idle"
    /\ ret' = Returned("connect", "True")
    /\ ReturnLocals
    /\ UNCHANGED <<fixed, stamping, timed_out, ip_set, is_connected, simulated_mode, printer_websocket,
                   printer_data, conns, last_text>>

\* what a connect() whose wait timed out returns
TimeoutResult == IF impl = "printmon" THEN "True" ELSE "False"

\* the 5-second wait ends without the open signal
ConnectTimeout ==
    /\ pc = "wait"
    /\ IsMonitor \/ ~event
    /\ printer_websocket' = NoConn
    /\ pc' = "idle"
    /\ ret' = Returned("connect", TimeoutResult)
    /\ IF impl = "printmon"
       THEN /\ simulated_mode' = TRUE
            /\ is_connected' = TRUE
            /\ \E t \in Times :
                  printer_data' = [status |-> SimulatedStatus, last_updated |-> t]
       ELSE UNCHANGED <<simulated_mode, is_connected, printer_data>>
    /\ timed_out' = timed_out \cup {ws}
    /\ ReturnLocals
    /\ UNCHANGED <<fixed, stamping, ip_set, conns, last_text>>

\* a get_status() that hands out the cached record although not connected
NotConnectedResult_Cached == "printer_data"

\* what get_status() / get_printer_status() returns when not connected
NotConnectedResult == IF IsMonitor THEN "None" ELSE "printer_data"

\* get_status() / get_printer_status() when not connected
GetStatusNotConnected ==
    /\ pc = "idle"
    /\ ~is_connected
    /\ ret' = Returned("get_status", NotConnectedResult)
    /\ UNCHANGED <<fixed, stamping, timed_out, locals, ip_set, is_connected, simulated_mode,
                   printer_websocket, printer_data, conns, pc, last_text>>

\* get_status() / get_printer_status() when connected: on to the sends
GetStatusBegin ==
    /\ pc = "idle"
    /\ is_connected
    /\ pc' = "send"
    /\ ret' = NoReturn
    /\ UNCHANGED <<fixed, stamping, timed_out, locals, ip_set, is_connected, simulated_mode,
                   printer_websocket, printer_data, conns, last_text>>

\* how one _send_printer_cmd can end in the current state
SendOutcomes ==
    IF IsMonitor
    THEN IF printer_websocket # NoConn /\ conns[printer_websocket] = "open"
         THEN {"ok", "WebsocketError"}
         ELSE {"ConnectionError"}
    ELSE IF ~is_connected THEN {"ConnectionError"}
         ELSE IF printer_websocket # NoConn
              THEN IF conns[printer_websocket] = "open"
                   THEN {"ok", "WebsocketError", "OSError"}
                   ELSE {"WebsocketError"}
              ELSE {"ConnectionError"}

\* is_connected after a _send_printer_cmd that ended with `outcome`
ConnectedAfterSend(outcome) ==
    IF IsMonitor \/ outcome = "ok" THEN is_connected ELSE FALSE

\* where get_status goes after _send_printer_cmd number n (1..4) ended with
\* `outcome`: the first command sits in the outer try only, whose handler
\* ends the sends (the monitor catches Exception, the client only its
\* WebsocketError and OSError); the other three have a try/except of their own
AfterSend(n, outcome) ==
    IF n = 1 /\ outcome # "ok"
    THEN IF ~IsMonitor /\ outcome = "ConnectionError" THEN "raise" ELSE "stamp"
    ELSE IF n = Len(Cmds) THEN "stamp" ELSE "send"

\* one _send_printer_cmd(cmd) of get_status
SendCmd ==
    /\ pc = "send"
    /\ \E outcome \in SendOutcomes :
        LET n == Len(attempted) + 1
        IN  /\ attempted' = Append(attempted, Cmds[n])
            /\ sent' = IF outcome = "ok" THEN Append(sent, Cmds[n]) ELSE sent
            /\ send_result' = outcome
            /\ is_connected' = ConnectedAfterSend(outcome)
            /\ pc' = AfterSend(n, outcome)
    /\ UNCHANGED <<fixed, stamping, timed_out, ip_set, simulated_mode, printer_websocket, printer_data, conns,
                   ws, event, in_connect, last_text, ret>>

\* the end of get_status: the monitor stamps last_updated, the record is returned
\* (to connect(), which returns True, when this was its initial get_status)
GetStatusReturn ==
    /\ pc = "stamp"
    /\ IF IsMonitor
       THEN \E t \in Times : printer_data' = [printer_data EXCEPT !.last_updated = t]
       ELSE UNCHANGED printer_data
    /\ ret' = IF in_connect THEN Returned("connect", "True")
                            ELSE Returned("get_status", "printer_data")
    /\ pc' = "idle"
    /\ ReturnLocals
    /\ UNCHANGED <<fixed, stamping, timed_out, ip_set, is_connected, simulated_mode, printer_websocket, conns,
                   last_text>>

\* the exception of the first send leaves get_printer_status
GetStatusRaise ==
    /\ pc = "raise"
    /\ ret' = Returned("get_status", send_result)
    /\ pc' = "idle"
    /\ ReturnLocals
    /\ UNCHANGED <<fixed, stamping, timed_out, ip_set, is_connected, simulated_mode, printer_websocket,
                   printer_data, conns, last_text>>

\* WebSocketApp.close(): keep_running = False, the socket is closed
Closed(state) == IF state \in {"connecting", "open", "retry"} THEN "closing" ELSE state

\* does disconnect() reach the statements after close() when close() raised?
\* (the monitor's close() sits in the try that holds the whole body)
ResetsAfterCloseRaised == ~IsMonitor

\* disconnect(); `raises` says whether printer_websocket.close() raised
Disconnect ==
    /\ pc = "idle"
    /\ \E raises \in BOOLEAN :
        IF printer_websocket # NoConn
        THEN /\ conns' = [conns EXCEPT ![printer_websocket] = Closed(@)]
             /\ IF raises /\ ~ResetsAfterCloseRaised
                THEN UNCHANGED <<printer_websocket, is_connected, simulated_mode>>
                ELSE /\ printer_websocket' = NoConn
                     /\ is_connected' = FALSE
                     /\ simulated_mode' = FALSE
        ELSE /\ ~raises
             /\ is_connected' = FALSE
             /\ simulated_mode' = FALSE
             /\ UNCHANGED <<printer_websocket, conns>>
    /\ ret' = Returned("disconnect", "None")
    /\ UNCHANGED <<fixed, stamping, timed_out, locals, ip_set, printer_data, pc, last_text>>

\* ------------------------------------------------ the connection's thread
\* the socket opens (first time or after a reconnect): on_open
WsOpen(c) ==
    /\ conns[c] \in {"connecting", "retry"}
    /\ c \notin stamping
    /\ conns' = [conns EXCEPT ![c] = "open"]
    /\ is_connected' = IF IsMonitor THEN is_connected ELSE TRUE
    /\ event' = IF ~IsMonitor /\ c = ws /\ pc = "wait" THEN TRUE ELSE event
    /\ UNCHANGED <<fixed, stamping, timed_out, ip_set, simulated_mode, printer_websocket, printer_data, pc, ws,
                   in_connect, attempted, sent, send_result, last_text, ret>>

\* a text frame arrives: on_message, up to the write of the status
WsMessage(c, text) ==
    /\ conns[c] = "open"
    /\ c \notin stamping
    /\ last_text' = text
    /\ stamping' = IF StampsAfter(text) THEN stamping \cup {c} ELSE stamping
    /\ UNCHANGED <<fixed, timed_out, locals, ip_set, simulated_mode, conns, pc, ret>>
    /\ ParseResponse(text)

\* _status_handler, second write: self.printer_data.last_updated = now
WsStamp(c) ==
    /\ c \in stamping
    /\ stamping' = stamping \ {c}
    /\ \E t \in Times : printer_data' = [printer_data EXCEPT !.last_updated = t]
    /\ UNCHANGED <<fixed, timed_out, locals, ip_set, is_connected, simulated_mode,
                   printer_websocket, conns, pc, last_text, ret>>

\* the connection fails: on_error, and run_forever(reconnect=1) tries again
WsError(c) ==
    /\ LoopRunning(c)
    /\ c \notin stamping
    /\ conns' = [conns EXCEPT ![c] = IF @ = "connecting" THEN "connecting" ELSE "retry"]
    /\ HandleLost
    /\ UNCHANGED <<fixed, stamping, timed_out, locals, ip_set, simulated_mode, printer_data, pc, last_text,
                   ret>>

\* the thread tears down (the peer closed, or close() was called): on_close
WsClose(c) ==
    /\ conns[c] \in {"open", "closing"}
    /\ c \notin stamping
    /\ conns' = [conns EXCEPT ![c] = "dead"]
    /\ HandleLost
    /\ UNCHANGED <<fixed, stamping, timed_out, locals, ip_set, simulated_mode, printer_data, pc, last_text,
                   ret>>

Next ==
    \/ SetIp
    \/ ConnectNoIp
    \/ ConnectStart
    \/ ConnectSeen
    \/ ConnectSucceed
    \/ ConnectEvent
    \/ ConnectTimeout
    \/ GetStatusNotConnected
    \/ GetStatusBegin
    \/ SendCmd
    \/ GetStatusReturn
    \/ GetStatusRaise
    \/ Disconnect
    \/ \E c \in ConnIds : WsOpen(c)
    \/ \E c \in ConnIds, text \in Inbound : WsMessage(c, text)
    \/ \E c \in ConnIds : WsStamp(c)
    \/ \E c \in ConnIds : WsError(c)
    \/ \E c \in ConnIds : WsClose(c)

Spec == Init /\ [][Next]_vars

\* ------------------------------------------------ one session, every text
\* The session right after its first connect() returned True: one connection,
\* open; the monitor's connect() has made its initial get_status().
InitInbound ==
    /\ impl \in Impls
    /\ ip_set = TRUE
    /\ is_connected = TRUE
    /\ simulated_mode = FALSE
    /\ printer_websocket = 1
    /\ \E t \in Times :
          printer_data = [status |-> DefaultStatus,
                          last_updated |-> IF IsMonitor THEN t ELSE NoTime]
    /\ conns = [c \in ConnIds |-> IF c = 1 THEN "open" ELSE "unused"]
    /\ pc = "idle"
    /\ ws = NoConn
    /\ event = FALSE
    /\ in_connect = FALSE
    /\ attempted = <<>>
    /\ sent = <<>>
    /\ send_result = "none"
    /\ last_text = "none"
    /\ stamping = {}
    /\ timed_out = {}
    /\ workers = [w \in WorkerIds |-> "unused"]
    /\ norm = NoNorm
    /\ ident = NoIdent
    /\ ui = UiIdle
    /\ ret = Returned("connect", "True")

\* the session polls and its connection delivers any text of AllInbound; no
\* further connect() or disconnect()
NextInbound ==
    \/ GetStatusNotConnected
    \/ GetStatusBegin
    \/ SendCmd
    \/ GetStatusReturn
    \/ GetStatusRaise
    \/ \E c \in ConnIds : WsOpen(c)
    \/ \E c \in ConnIds, text \in AllInbound : WsMessage(c, text)
    \/ \E c \in ConnIds : WsStamp(c)
    \/ \E c \in ConnIds : WsError(c)
    \/ \E c \in ConnIds : WsClose(c)

SpecInbound == InitInbound /\ [][NextInbound]_vars

\* ------------------------------------------------ the application's polling
\* main.py drives one stats.PrinterMonitor. connect_to_printer starts the
\* 1-second printer_status_timer and then a thread that runs
\* connect_to_printer_monitor (set_ip_address, connect) and, when that returned
\* True, fetch_printer_status. Every fetch_printer_status that finds
\* is_connected builds an executor of its own and submits one get_status().
\*   "unused"  thread not started       "queued"  submitted, not yet running
\*   "send"    in get_status, sending   "stamp"   in get_status, about to stamp
\*   "done"    get_status has returned
WorkerStates == {"unused", "queued", "send", "stamp", "done"}

\* fetch_printer_status(): nothing when not connected, else a new thread
FetchPrinterStatus ==
    /\ is_connected
    /\ \E w \in WorkerIds :
          /\ workers[w] = "unused"
          /\ \A v \in WorkerIds : v < w => workers[v] # "unused"
          /\ workers' = [workers EXCEPT ![w] = "queued"]

\* a tick of printer_status_timer on the UI thread
TimerFetch ==
    /\ ui.timer
    /\ FetchPrinterStatus
    /\ UNCHANGED <<impl, ident, ui, norm, stamping, timed_out, locals, ip_set, is_connected, simulated_mode,
                   printer_websocket, printer_data, conns, pc, last_text, ret>>

\* the connect thread after connect_to_printer_monitor returned True:
\* "Get initial status", then the thread ends
ConnectFetch ==
    /\ pc = "idle"
    /\ ret = Returned("connect", "True")
    /\ IF is_connected THEN FetchPrinterStatus ELSE UNCHANGED workers
    /\ pc' = "done"
    /\ UNCHANGED <<impl, ident, ui, norm, stamping, timed_out, locals, ip_set, is_connected, simulated_mode,
                   printer_websocket, printer_data, conns, last_text, ret>>

\* get_status_thread starts: get_status() tests is_connected
WorkerBegin(w) ==
    /\ workers[w] = "queued"
    /\ workers' = [workers EXCEPT ![w] = IF is_connected THEN "send" ELSE "done"]
    /\ UNCHANGED <<impl, ident, ui, norm, stamping, timed_out, locals, ip_set, is_connected, simulated_mode,
                   printer_websocket, printer_data, conns, pc, last_text, ret>>

\* its four _send_printer_cmd: whatever they raise is caught, and the
\* monitor's _send_printer_cmd writes no field of the session
WorkerSends(w) ==
    /\ workers[w] = "send"
    /\ workers' = [workers EXCEPT ![w] = "stamp"]
    /\ UNCHANGED <<impl, ident, ui, norm, stamping, timed_out, locals, ip_set, is_connected, simulated_mode,
                   printer_websocket, printer_data, conns, pc, last_text, ret>>

\* the end of its get_status: last_updated stamped, the record returned and
\* emitted to the UI
WorkerReturn(w) ==
    /\ workers[w] = "stamp"
    /\ workers' = [workers EXCEPT ![w] = "done"]
    /\ \E t \in Times : printer_data' = [printer_data EXCEPT !.last_updated = t]
    /\ UNCHANGED <<impl, ident, ui, norm, stamping, timed_out, locals, ip_set, is_connected, simulated_mode,
                   printer_websocket, conns, pc, last_text, ret>>

\* connect_to_printer has just started the timer and the connect thread, on a
\* monitor that was never connected
InitPolling ==
    /\ FreshSession
    /\ norm = NoNorm
    /\ ident = NoIdent
    /\ ui = UiStarted
    /\ impl = "monitor"

NextPolling ==
    \/ SetIp
    \/ ConnectStart
    \/ ConnectSeen
    \/ ConnectSucceed
    \/ ConnectTimeout
    \/ SendCmd
    \/ GetStatusReturn
    \/ ConnectFetch
    \/ TimerFetch
    \/ \E w \in WorkerIds : WorkerBegin(w)
    \/ \E w \in WorkerIds : WorkerSends(w)
    \/ \E w \in WorkerIds : WorkerReturn(w)
    \/ \E c \in ConnIds : WsOpen(c)
    \/ \E c \in ConnIds, text \in Inbound : WsMessage(c, text)
    \/ \E c \in ConnIds : WsStamp(c)
    \/ \E c \in ConnIds : WsError(c)
    \/ \E c \in ConnIds : WsClose(c)

SpecPolling == InitPolling /\ [][NextPolling]_vars

\* the background connect has returned
ConnectFinished == ret.op = "connect"

\* disconnect_printer() on the UI thread, once: when the monitor says it is
\* connected the timer is stopped and the monitor's disconnect() runs
\* (`raises`: its close() raised, which leaves the monitor as it was)
DisconnectPrinter ==
    /\ ui.disconnected = "no"
    /\ LET when == IF ConnectFinished THEN "after" ELSE "during"
       IN  IF is_connected
           THEN /\ ui' = [timer |-> FALSE, disconnected |-> when]
                /\ \E raises \in BOOLEAN :
                     IF printer_websocket # NoConn
                     THEN /\ conns' = [conns EXCEPT ![printer_websocket] = Closed(@)]
                          /\ IF raises
                             THEN UNCHANGED <<printer_websocket, is_connected, simulated_mode>>
                             ELSE /\ printer_websocket' = NoConn
                                  /\ is_connected' = FALSE
                                  /\ simulated_mode' = FALSE
                     ELSE /\ ~raises
                          /\ is_connected' = FALSE
                          /\ simulated_mode' = FALSE
                          /\ UNCHANGED <<printer_websocket, conns>>
           ELSE /\ ui' = [ui EXCEPT !.disconnected = when]
                /\ UNCHANGED <<printer_websocket, is_connected, simulated_mode, conns>>
    /\ UNCHANGED <<impl, ident, norm, workers, stamping, timed_out, locals, ip_set,
                   printer_data, pc, last_text, ret>>

\* the application with its disconnect_printer; the texts the connection
\* delivers touch neither the connection state nor the timer and are left out
NextUi ==
    \/ SetIp
    \/ ConnectStart
    \/ ConnectSeen
    \/ ConnectSucceed
    \/ ConnectTimeout
    \/ SendCmd
    \/ GetStatusReturn
    \/ ConnectFetch
    \/ TimerFetch
    \/ DisconnectPrinter
    \/ \E w \in WorkerIds : WorkerBegin(w)
    \/ \E w \in WorkerIds : WorkerSends(w)
    \/ \E w \in WorkerIds : WorkerReturn(w)
    \/ \E c \in ConnIds : WsOpen(c)
    \/ \E c \in ConnIds : WsError(c)
    \/ \E c \in ConnIds : WsClose(c)

SpecUi == InitPolling /\ [][NextUi]_vars

\* the get_status() calls in progress: those of the application's threads
\* and the one of the thread that is inside the API (connect's initial one)
RunningWorkers == {w \in WorkerIds : workers[w] \in {"send", "stamp"}}
GetStatusCalls ==
    Cardinality(RunningWorkers) + IF pc \in {"send", "stamp", "raise"} THEN 1 ELSE 0

\* ------------------------------------------------ the normalizer alone
\* a message of some shape around some PrintInfo and Temperature is at hand
InitNorm ==
    /\ FreshSession
    /\ impl = "monitor"
    /\ ident = NoIdent
    /\ ui = UiIdle
    /\ \E shape \in Shapes, P \in PrintInfos, T \in Temperatures :
          norm = [NoNorm EXCEPT !.shape = shape, !.P = P, !.T = T,
                                !.msg = Wrap(shape, P, T)]

\* PrinterStatus.from_json on the message; PrintInfo.from_dict on P (raises
\* says that it ended with an exception) and what update_printer_status_ui
\* shows for that print info
Normalize ==
    /\ ~norm.done
    /\ LET raises == FromDictRaises(norm.P)
           print_info == IF raises THEN DefaultStatus.print_info
                                   ELSE PrintInfo_from_dict(norm.P)
       IN  norm' = [norm EXCEPT
                       !.done = TRUE,
                       !.status = PrinterStatus_from_json(norm.msg),
                       !.raises = raises,
                       !.print_info = print_info,
                       !.status_text = CoarseStatus(print_info.status_code),
                       !.panel = UpdatePanel(print_info)]
    /\ UNCHANGED <<impl, ident, ui, workers, stamping, timed_out, locals, ip_set, is_connected,
                   simulated_mode, printer_websocket, printer_data, conns, pc, last_text,
                   ret>>

NextNorm == Normalize

\* ------------------------------------------------ PrintInfo.from_dict alone
\* the print-info payloads of the field claims, in a status message of the
\* standard shape with a temperature
\* temperature objects whose first key holds a value float() rejects
BadTemperatures ==
    {JObj("UVTemp" :> v @@ "UV" :> JInt(25)) : v \in Uncoercible}
FieldPayloads ==
    TextTimePayloads \cup TickPayloads \cup OutOfRangePayloads \cup PanelPayloads
    \cup BadPayloads
FieldTemperatures == {JObj("UVTemp" :> JInt(30))} \cup BadTemperatures

InitInfo ==
    /\ FreshSession
    /\ impl = "monitor"
    /\ ident = NoIdent
    /\ ui = UiIdle
    /\ \E P \in FieldPayloads, T \in FieldTemperatures :
          norm = [NoNorm EXCEPT !.shape = "data_data", !.P = P, !.T = T,
                                !.msg = Wrap("data_data", P, T)]

SpecInfo == InitInfo /\ [][NextNorm]_vars

SpecNorm == InitNorm /\ [][NextNorm]_vars

\* ------------------------------------------------ payloads of fallback keys
\* values under the keys that decide is_printing
Running == <<"R", "u", "n", "n", "i", "n", "g">>
PRINTING == <<"P", "R", "I", "N", "T", "I", "N", "G">>
busy == <<"b", "u", "s", "y">>
idle == <<"i", "d", "l", "e">>
PrintingValues ==
    {JBool(TRUE), JBool(FALSE), JInt(0), JInt(2), JNull, JStr(<<>>),
     JStr(Running), JStr(PRINTING), JStr(busy), JStr(idle)}
\* one or two of the keys of the is_printing loop, any of the values
PrintingKeySets ==
    {D \in SUBSET {IsPrintingKeys[i] : i \in 1..Len(IsPrintingKeys)} :
        Cardinality(D) \in 1..2}
PrintingPayloads ==
    {JObj(f) : f \in UNION {[D -> PrintingValues] : D \in PrintingKeySets}}

\* malformed durations: a text that is no number, ':'-texts with a part
\* that is no integer, and ':'-texts of one... four parts
MalformedTimes ==
    {JStr(<<"a", "b", "c">>), JStr(<<"1", ":", "x">>),
     JStr(<<"1", ".", "5", ":", "2">>), JStr(<<":">>), JStr(<<":", ":">>),
     JStr(<<"1", ":", "2", ":", "3", ":", "4">>)}
WellFormedTimes == {JInt(90), JStr(MS(1, 30)), JStr(HMS(1, 0, 5))}
\* the first three keys of the remain_time loop and three of the total_time
\* loop, in the order of the lists
SkipKeys ==
    {<<"RemainTime", "TimeLeft", "remain_time">>,
     <<"TotalTime", "total_time", "TotalPrintTime">>}
\* what else the payload holds: no duration, or durations under later keys
SkipRest ==
    {JObj("Status" :> JInt(2) @@ "Layer" :> JInt(4) @@ "TotalLayers" :> JInt(10)),
     JObj("Status" :> JInt(2) @@ "RemainingTime" :> JInt(45)
          @@ "PrintDuration" :> JStr(MS(2, 0)))}
\* a malformed value under the first key; under the second a malformed one,
\* a well-formed one or nothing; under the third a well-formed one or nothing
SkipPayloads ==
    UNION {{JObj(rest.v @@ (ks[1] :> bad) @@ second @@ third) :
                second \in {<<>>} \cup {ks[2] :> x : x \in MalformedTimes \cup WellFormedTimes},
                third \in {<<>>} \cup {ks[3] :> x : x \in WellFormedTimes}} :
              ks \in SkipKeys, bad \in MalformedTimes, rest \in SkipRest}
\* payload P without its malformed durations
WithoutMalformed(P) ==
    JObj([k \in {x \in DOMAIN P.v : P.v[x] \notin MalformedTimes} |-> P.v[k]])

KeyPayloads == PrintingPayloads \cup SkipPayloads
KeyTemperature == JObj("UVTemp" :> JInt(30))
\* Temperature dicts: direct keys (none, a number, 0, a bad text before a
\* number) and under each parent nothing, or a dict with a number or a bad
\* text under a child key; the numbers tell the parents apart
TempDirectParts ==
    {<<>>, "UVTemp" :> JInt(30), "UVTemp" :> JInt(0),
     "UVTemp" :> JStr(<<"a", "b", "c">>) @@ "uv_temp" :> JInt(28)}
TempChildParts(n) ==
    {<<>>, "Temp" :> JInt(n), "Value" :> JInt(n + 1),
     "Temp" :> JStr(<<"x">>), "Temp" :> JStr(<<"x">>) @@ "Current" :> JInt(n + 2)}
ParentPart(parent, n) ==
    {<<>>} \cup {parent :> JObj(c) : c \in TempChildParts(n)}
TempPayloads ==
    {JObj(d @@ uv @@ panel @@ light) :
        d \in TempDirectParts, uv \in ParentPart("UV", 20),
        panel \in ParentPart("UVPanel", 40), light \in ParentPart("Light", 60)}
KeyInputs ==
    {<<P, KeyTemperature>> : P \in KeyPayloads}
    \cup {<<CodePayload(2), T>> : T \in TempPayloads}

InitKeys ==
    /\ FreshSession
    /\ impl = "monitor"
    /\ ident = NoIdent
    /\ ui = UiIdle
    /\ \E input \in KeyInputs :
          norm = [NoNorm EXCEPT !.shape = "data_data", !.P = input[1], !.T = input[2],
                                !.msg = Wrap("data_data", input[1], input[2])]

SpecKeys == InitKeys /\ [][NextNorm]_vars

\* ------------------------------------------- messages with several containers
\* the containers in the order from_json visits them
ShapeOrder ==
    <<"data_data", "data", "StatusData", "Status", "PrintStatus", "state", "top">>
ShapeIndex(shape) == CHOOSE i \in 1..Len(ShapeOrder) : ShapeOrder[i] = shape
\* what container number i holds: its PrintInfo has Status i, its Temperature
\* has UVTemp 10 + i, so that the origin of a decoded value can be told
PartPrint(i) == CodePayload(i)
PartTemp(i) == JObj("UVTemp" :> JInt(10 + i))
\* a container holds a PrintInfo, a Temperature, both, or an empty PrintInfo
\* next to a Temperature
BodyKinds == {"pi", "temp", "both", "empty_pi"}
Body(i, kind) ==
    JObj((CASE kind \in {"pi", "both"} -> "PrintInfo" :> PartPrint(i)
            [] kind = "empty_pi" -> "PrintInfo" :> EmptyDict
            [] OTHER -> <<>>)
         @@ (IF kind \in {"temp", "both", "empty_pi"}
             THEN "Temperature" :> PartTemp(i) ELSE <<>>))
\* parts maps some of the shapes to the kind of body held there
PartsSets ==
    UNION {[D -> BodyKinds] :
              D \in {E \in SUBSET Shapes : Cardinality(E) <= MaxContainers}}
\* the message with these parts
Message(parts) ==
    LET has(shape) == shape \in DOMAIN parts
        body(shape) == Body(ShapeIndex(shape), parts[shape])
        under_data ==
            (IF has("data_data") THEN "Data" :> body("data_data") ELSE <<>>)
            @@ (IF has("data") THEN body("data").v ELSE <<>>)
    IN  JObj((IF has("data_data") \/ has("data")
              THEN "Data" :> JObj(under_data) ELSE <<>>)
             @@ [c \in Containers \cap DOMAIN parts |-> body(c)]
             @@ (IF has("top") THEN body("top").v ELSE <<>>))

InitMulti ==
    /\ FreshSession
    /\ impl = "monitor"
    /\ ident = NoIdent
    /\ ui = UiIdle
    /\ \E parts \in PartsSets :
          norm = [NoNorm EXCEPT !.shape = "multi", !.parts = parts,
                                !.msg = Message(parts)]

SpecMulti == InitMulti /\ [][NextNorm]_vars

\* ------------------------------------------------- the identity of a session
\* connect() of a monitor followed step by step for what it does to
\* self.printer: the discovery, the URL of connect_printer, and the payload
\* of every command sent afterwards.
CmdCodes == {Cmds[i] : i \in 1..Len(Cmds)}

InitIdent ==
    /\ FreshSession
    /\ impl = "monitor"
    /\ norm = NoNorm
    /\ ui = UiIdle
    /\ \E ip_address \in Addresses :
          ident = [NoIdent EXCEPT !.step = "start", !.ip_address = ip_address]

IdentUnchanged ==
    UNCHANGED <<impl, ui, workers, norm, stamping, timed_out, locals, ip_set,
                is_connected, simulated_mode, printer_websocket, printer_data,
                conns, pc, last_text, ret>>

\* connect(), the discovery part: discover_printer() gets a reply or none
Discover ==
    /\ ident.step = "start"
    /\ \E reply \in {NoReply} \cup {Reply(data) : data \in Replies} :
          ident' = [ident EXCEPT
                       !.step = "discovered", !.reply = reply,
                       !.printer = DiscoveredPrinter(reply, ident.ip_address)]
    /\ IdentUnchanged

\* connect_printer(): the URL is built from self.printer; the socket opens
\* within the timeout or it does not
ConnectPrinter ==
    /\ ident.step = "discovered"
    /\ \E opened \in BOOLEAN :
          ident' = [ident EXCEPT
                       !.step = IF opened THEN "connected" ELSE "failed",
                       !.url = Url(ident.printer)]
    /\ IdentUnchanged

\* _send_printer_cmd(cmd) on the open socket
SendPrinterCmd ==
    /\ ident.step \in {"connected", "sent"}
    /\ \E cmd \in CmdCodes, request_id \in RequestIds, ts \in Times :
          LET payload == Payload(ident.printer, cmd, request_id, ts)
          IN  ident' = [ident EXCEPT !.step = "sent", !.cmd = cmd,
                                     !.payload = payload,
                                     !.wire = Dumps(payload)]
    /\ IdentUnchanged

NextIdent ==
    \/ Discover
    \/ ConnectPrinter
    \/ SendPrinterCmd

SpecIdent == InitIdent /\ [][NextIdent]_vars

TypeOK ==
    /\ impl \in Impls
    /\ is_connected \in BOOLEAN
    /\ printer_websocket \in ConnIds \cup {NoConn}
    /\ \A c \in ConnIds : conns[c] \in ConnStates
    /\ pc \in {"idle", "wait", "settle", "send", "stamp", "raise", "done"}
    /\ \A w \in WorkerIds : workers[w] \in WorkerStates
    /\ Len(attempted) <= Len(Cmds)
    /\ pc = "idle" => attempted = <<>> /\ sent = <<>> /\ ws = NoConn

\* ------------------------------------------------------------ properties
Exceptions == {"ConnectionError", "WebsocketError", "OSError"}

\* C1: a connect() whose websocket never opened before the wait ran out
\* returns False and leaves the session Disconnected (is_connected False, so
\* that get_status() returns no status).
C1_TimeoutFailsDisconnected ==
    [][(ConnectTimeout /\ conns[ws] = "connecting")
          => (ret' = Returned("connect", "False") /\ ~is_connected')]_vars

\* C2: from Connected, an on_close or on_error of the connection in use makes
\* is_connected False (so the next status read reports "not connected").
C2_LossDisconnects ==
    [][\A c \in ConnIds :
          (is_connected /\ printer_websocket = c /\ conns[c] = "open"
              /\ (WsError(c) \/ WsClose(c)))
          => ~is_connected']_vars

\* C3: a malformed (non-JSON) text changes neither the latest status nor
\* last_updated nor the session, and the receive loop goes on: the connection
\* stays open and a status text that follows it is parsed and stored.
C3_MalformedDropped ==
    [][\A c \in ConnIds, text \in AllInbound :
          WsMessage(c, text)
          => /\ RouteOf[text] = "bad_json"
                => /\ UNCHANGED <<printer_data, is_connected, printer_websocket>>
                   /\ conns'[c] = "open"
             /\ (LastRoute = "bad_json" /\ RouteOf[text] = "status")
                => printer_data'.status = StatusOf[text]]_vars

\* a malformed text has just been handled while a status parsed earlier is
\* stored and a connection is open to receive the next text
C3_Witness ==
    /\ last_text = "malformed"
    /\ printer_data.status = StatusOf["status_a"]
    /\ \E c \in ConnIds : conns[c] = "open"

\* C4: a _send_printer_cmd that fails raises a typed not-connected or
\* transport error and leaves the session Disconnected (is_connected False).
C4_SendFailureDisconnects ==
    [][(SendCmd /\ send_result' # "ok")
          => (send_result' \in Exceptions /\ ~is_connected')]_vars

\* C5: one get_status() in Connected state attempts all four commands
\* 0, 100, 200, 300 in that order, whichever of them fails.
C5_AllFourAttempted == pc \in {"stamp", "raise"} => attempted = Cmds

\* C6: get_status() and get_printer_status() never raise to their caller.
C6_NeverRaises == pc # "raise" /\ ret.val \notin Exceptions

C8_ConnectDisconnectsFirst ==
    [][\A c \in ConnIds :
          (ConnectStart /\ is_connected /\ printer_websocket = c)
          => conns'[c] \notin {"connecting", "open", "retry"}]_vars

\* C9: disconnect() leaves the session Disconnected (is_connected False, no
\* connection handle held) from every state, also when close() raises.
C9_DisconnectResets ==
    [][Disconnect => (~is_connected' /\ printer_websocket' = NoConn)]_vars

\* C10: after disconnect() no receive loop is left running without having
\* been closed, and until the next API call no inbound message changes the
\* latest status.
C10_DisconnectStopsLoops ==
    [][/\ Disconnect => \A c \in ConnIds : conns'[c] \notin {"connecting", "open", "retry"}
       /\ (pc = "idle" /\ ret.op = "disconnect") => printer_data' = printer_data]_vars

\* C11: the connect() that times out stops the receive loop of its half-open
\* connection, and no later open, message, close or error event of a
\* timed-out connection changes the session state or the latest status.
C11_TimeoutTearsDown ==
    [][/\ ConnectTimeout => conns'[ws] \notin {"connecting", "open", "retry"}
       /\ \A c \in timed_out :
             (WsOpen(c) \/ WsError(c) \/ WsClose(c) \/ WsStamp(c)
                 \/ \E text \in Inbound : WsMessage(c, text))
             => UNCHANGED <<is_connected, printer_websocket, printer_data>>]_vars

\* C12: a reader that holds the record get_status() returned never sees it
\* half-updated: no receive loop is between its write of status and its
\* write of last_updated while the reader can look at the record.
C12_NoHalfUpdatedRecord ==
    ret = Returned("get_status", "printer_data") => stamping = {}

\* C13: last_updated changes only in the handling of a status message: a
\* get_status() that ends leaves the last_updated it found.
C13_OnlyMessagesStamp ==
    [][GetStatusReturn => printer_data'.last_updated = printer_data.last_updated]_vars

\* C14: a status-routed text whose body cannot be parsed into a status (its
\* Data is a number) is dropped: the stored status and last_updated stay as
\* they were.
C14_UnparseableDropped ==
    [][\A c \in ConnIds :
          WsMessage(c, "status_number") => UNCHANGED printer_data]_vars

\* has the text a Topic that names a type, and which
HasTopic(name) ==
    /\ TextOf[name].wf
    /\ IsDict(TextOf[name].val)
    /\ TopicOf(TextOf[name].val).t = "str"
    /\ TopicOf(TextOf[name].val).v # <<>>
TopicTypeOf(name) == TopicType(TopicOf(TextOf[name].val).v)
\* the texts whose Topic names a type other than status, or none
OtherTopic == {name \in AllInbound : HasTopic(name) /\ TopicTypeOf(name) # WordStatus}

\* C15: a text whose Topic type is not status (response, notice, error, any
\* other type, or none because the Topic has no '/') leaves the latest
\* status, last_updated and the session state unchanged.
C15_OnlyStatusTopicStores ==
    [][\A c \in ConnIds, text \in OtherTopic :
          WsMessage(c, text)
          => UNCHANGED <<printer_data, stamping, is_connected, printer_websocket>>]_vars

\* a text of another Topic type was the last one handled, and the status a
\* status text brought before it is still the stored one
C15_Witness ==
    /\ OtherTopic = {"response", "notice", "error", "other", "no_slash"}
    /\ last_text \in OtherTopic
    /\ printer_data.status = StatusOf["status_a"]
    /\ printer_data.status # DefaultStatus

\* the text without its Topic
WithoutTopic(name) ==
    LET d == TextOf[name].val.v
    IN  JObj([k \in DOMAIN d \ {"Topic"} |-> d[k]])

\* the pairs <<a, b>>: a has no Topic but a key of the fallback, b is a status
\* text with the same body
SameBody ==
    {p \in AllInbound \X AllInbound :
        /\ TextOf[p[1]].wf /\ IsDict(TextOf[p[1]].val)
        /\ ~HasKey(TextOf[p[1]].val, "Topic")
        /\ \E k \in {"Data", "StatusData", "PrintInfo"} : HasKey(TextOf[p[1]].val, k)
        /\ HasTopic(p[2]) /\ TopicTypeOf(p[2]) = WordStatus
        /\ WithoutTopic(p[2]) = TextOf[p[1]].val}

\* the status texts with the same body as the text a
TwinsOf == [a \in AllInbound |-> {b \in AllInbound : <<a, b>> \in SameBody}]

\* the texts that are objects with no Topic and no key of the fallback
NoTopicNoData ==
    {name \in AllInbound :
        /\ TextOf[name].wf /\ IsDict(TextOf[name].val)
        /\ ~HasKey(TextOf[name].val, "Topic")
        /\ \A k \in {"Data", "StatusData", "PrintInfo"} : ~HasKey(TextOf[name].val, k)}

\* C16: a text without a Topic that has Data, StatusData or PrintInfo is
\* handled like the status text with the same body (the status that text
\* gives is stored, the stamp of a status text follows, the session is left
\* alone), and a text without a Topic and without those keys changes nothing.
C16_TopiclessFallback ==
    [][\A c \in ConnIds :
          /\ \A a \in AllInbound :
                WsMessage(c, a)
                => \A b \in TwinsOf[a] :
                      /\ RouteOf[a] = RouteOf[b]
                      /\ printer_data'.status = StatusOf[b]
                      /\ stamping' = IF StampsAfter(b) THEN stamping \cup {c}
                                     ELSE stamping
                      /\ UNCHANGED <<is_connected, printer_websocket>>
          /\ \A text \in NoTopicNoData :
                WsMessage(c, text)
                => UNCHANGED <<printer_data, stamping, is_connected,
                               printer_websocket>>]_vars

\* the status of a text without a Topic is stored, and it is the one the
\* status text with the same body gives
C16_Witness ==
    /\ Cardinality(SameBody) = 3
    /\ NoTopicNoData # {}
    /\ last_text = "no_topic_c"
    /\ printer_data.status = StatusOf["status_c"]
    /\ printer_data.status # DefaultStatus

\* C17: for one session no two get_status() calls are in progress at the same
\* time: neither two of the application's polling threads, nor one of them
\* together with the initial get_status inside connect().
C17_PollsSerialized == GetStatusCalls <= 1

\* C18: a session starts with the default-valued status: when a connect()
\* returns True (not in simulated mode), and when a get_status() of the
\* session returns the record, and no text has been handled since that
\* connect() began, the latest status is the default PrinterStatus, whatever
\* an earlier session stored.
C18_SessionStartsDefault ==
    [][(/\ ret = NoReturn
        /\ ret' \in {Returned("connect", "True"), Returned("get_status", "printer_data")}
        /\ last_text' = "none"
        /\ ~simulated_mode')
          => printer_data'.status = DefaultStatus]_vars

\* C19: whichever supported shape wraps a well-formed PrintInfo dict P and
\* Temperature dict T, from_json extracts the same print_info and temperature:
\* what it made of the message at hand is what it makes of P and T under
\* every other shape.
C19_SameUnderEveryShape ==
    norm.done
    => \A shape \in Shapes :
          LET other == PrinterStatus_from_json(Wrap(shape, norm.P, norm.T))
          IN  /\ other.print_info = norm.status.print_info
              /\ other.temperature = norm.status.temperature

\* the print-info payloads with an integer Status and no boolean printing key
BooleanKeys == {"IsPrinting", "Printing", "isPrinting", "is_printing"}
IntegerStatus(P) ==
    /\ HasKey(P, "Status")
    /\ P.v["Status"].t = "int"
    /\ BooleanKeys \cap DOMAIN P.v = {}

\* C20: for such a payload status_code is the integer, is_printing is true
\* exactly for the codes 1, 2, 3, 4, 7, and the coarse status shown is Idle for
\* 0 and 8, Preparing for 1, Printing for 2-4, Finishing for 7 and Unknown
\* for every other code.
C20_CodesAndCoarseStatus ==
    (norm.done /\ IntegerStatus(norm.P))
    => LET code == norm.P.v["Status"].v
       IN  /\ norm.print_info.status_code = code
           /\ norm.print_info.is_printing <=> code \in {1, 2, 3, 4, 7}
           /\ code \in {0, 8} <=> norm.status_text = "Idle"
           /\ code = 1 <=> norm.status_text = "Preparing to print"
           /\ code \in {2, 3, 4} <=> norm.status_text = "Printing"
           /\ code = 7 <=> norm.status_text = "Finishing"
           /\ code \notin {0, 1, 2, 3, 4, 7, 8} <=> norm.status_text = "Unknown"

\* the payload with Status 8 has been normalized: not printing, shown as Idle
C20_Witness ==
    /\ norm.done
    /\ norm.P = CodePayload(8)
    /\ ~norm.print_info.is_printing
    /\ norm.status_text = "Idle"

\* C21: a remaining or total time given as "hh:mm:ss" with integer parts is
\* decoded to h*3600 + m*60 + s seconds, and one given as "mm:ss" to
\* m*60 + s seconds.
C21_TimeTextDecoded ==
    norm.done
    => /\ \A key \in RemainKeysUsed, m \in Minutes, s \in Seconds :
             /\ \A h \in Hours :
                   norm.P = JObj(key :> JStr(HMS(h, m, s)))
                   => norm.print_info.remain_time = h * 3600 + m * 60 + s
             /\ norm.P = JObj(key :> JStr(MS(m, s)))
                => norm.print_info.remain_time = m * 60 + s
       /\ \A key \in TotalKeysUsed, m \in Minutes, s \in Seconds :
             /\ \A h \in Hours :
                   norm.P = JObj(key :> JStr(HMS(h, m, s)))
                   => norm.print_info.total_time = h * 3600 + m * 60 + s
             /\ norm.P = JObj(key :> JStr(MS(m, s)))
                => norm.print_info.total_time = m * 60 + s

\* "01:05:07" under TimeLeft and "59:07" under PrintTime have been decoded
C21_Witness ==
    /\ norm.done
    /\ \/ /\ norm.P = JObj("TimeLeft" :> JStr(HMS(1, 5, 7)))
          /\ norm.print_info.remain_time = 3907
          /\ norm.status.print_info.remain_time = 3907
       \/ /\ norm.P = JObj("PrintTime" :> JStr(MS(59, 7)))
          /\ norm.print_info.total_time = 3547

\* q is n div 1000 (the floor of n / 1000)
IsDiv1000(q, n) == q * 1000 <= n /\ n < q * 1000 + 1000

\* C22: tick fallback. With no nonzero explicit total time and TotalTicks
\* present, total_time = TotalTicks div 1000; with no nonzero explicit
\* remaining time and both tick fields present, remain_time =
\* (TotalTicks - CurrentTicks) div 1000 (600000 and 150000 give 450); a nonzero
\* explicit value is never replaced.
C22_TickFallback ==
    (norm.done /\ norm.P \in TickPayloads)
    => LET P == norm.P
           info == norm.print_info
       IN  /\ (IntAt(P, "TotalTime") = 0 /\ HasKey(P, "TotalTicks"))
                => IsDiv1000(info.total_time, IntAt(P, "TotalTicks"))
           /\ (IntAt(P, "RemainTime") = 0 /\ HasKey(P, "TotalTicks")
                   /\ HasKey(P, "CurrentTicks"))
                => IsDiv1000(info.remain_time,
                             IntAt(P, "TotalTicks") - IntAt(P, "CurrentTicks"))
           /\ (IntAt(P, "TotalTicks") = 600000 /\ IntAt(P, "CurrentTicks") = 150000
                   /\ ~HasKey(P, "RemainTime"))
                => info.remain_time = 450
           /\ IntAt(P, "TotalTime") # 0 => info.total_time = IntAt(P, "TotalTime")
           /\ IntAt(P, "RemainTime") # 0 => info.remain_time = IntAt(P, "RemainTime")

\* TotalTicks 600000 and CurrentTicks 150000 with no explicit time: 600 and
\* 450 seconds
C22_Witness ==
    /\ norm.done
    /\ norm.P = JObj("TotalTicks" :> JInt(600000) @@ "CurrentTicks" :> JInt(150000))
    /\ norm.print_info.total_time = 600
    /\ norm.print_info.remain_time = 450
    /\ norm.status.print_info = norm.print_info

\* C23: whatever the payload (negative numbers, negative duration parts,
\* CurrentTicks above TotalTicks), the PrintInfo of from_dict has
\* remain_time, total_time, current_layer and total_layer >= 0 and
\* 0 <= progress <= 100.
C23_FieldsInRange ==
    norm.done
    => /\ norm.print_info.remain_time >= 0
       /\ norm.print_info.total_time >= 0
       /\ norm.print_info.current_layer >= 0
       /\ norm.print_info.total_layer >= 0
       /\ norm.print_info.progress >= 0
       /\ norm.print_info.progress <= 100

\* the whole percentage the panel works with (its local `progress`)
PanelPercent == (100 * LayerProgress(norm.print_info).num) \div LayerProgress(norm.print_info).den
\* q is int(n / d) for n >= 0 and d > 0
IsQuotient(q, n, d) == d > 0 /\ q * d <= n /\ n < (q + 1) * d

\* C24: time derivation on the panel of an active print. With no remaining
\* time, a total time and progress > 0 the remaining time shown is
\* total*(100-progress)/100 (1000 and 25 give 750); with no total time, a
\* remaining time and progress > 0 the total time shown is
\* remain*100/(100-progress) (750 and 25 give 1000); a nonzero parsed value is
\* shown as it is.
C24_TimesDerived ==
    (norm.done /\ norm.P \in PanelPayloads /\ norm.print_info.is_printing)
    => LET total == norm.print_info.total_time
           remain == norm.print_info.remain_time
       IN  /\ (remain = 0 /\ total > 0 /\ PanelPercent > 0)
                => /\ norm.panel.remain_time.known <=> PanelPercent < 100
                   /\ IsQuotient(norm.panel.remain_time.val,
                                 total * (100 - PanelPercent), 100)
           /\ (total = 0 /\ remain > 0 /\ PanelPercent > 0)
                => /\ norm.panel.total_time.known
                   /\ IsQuotient(norm.panel.total_time.val,
                                 remain * 100, 100 - PanelPercent)
           /\ (remain = 0 /\ total = 1000 /\ PanelPercent = 25)
                => norm.panel.remain_time = Known(750)
           /\ (total = 0 /\ remain = 750 /\ PanelPercent = 25)
                => norm.panel.total_time = Known(1000)
           /\ total > 0 => norm.panel.total_time = Known(total)
           /\ remain > 0 => norm.panel.remain_time = Known(remain)

\* C25: with total_layer = 0 the panel shows the layer and progress fields as
\* unknown ("--"), never as a number.
C25_UnknownLayersShownUnknown ==
    (norm.done /\ norm.print_info.total_layer = 0)
    => /\ norm.panel.progress = Unknown
       /\ norm.panel.current_layer = Unknown
       /\ norm.panel.remain_layers = Unknown

\* C26: a value that cannot be coerced to the numeric type of its field (a
\* non-numeric text, a list, an object, null, or for an integer field a number
\* int() cannot convert) is treated as an absent key: the message decodes to
\* exactly the status it decodes to without that key.
BadKeyOf(P) ==
    {k \in IntKeys \cup FloatKeys : HasKey(P, k) /\ P.v[k] \in BadValuesOf(k)}
C26_CoercionFailureLocal ==
    norm.done =>
        /\ \A k \in BadKeyOf(norm.P) :
              norm.status
                  = PrinterStatus_from_json(Wrap(norm.shape, Without(norm.P, k), norm.T))
        /\ (norm.T \in BadTemperatures) =>
              norm.status
                  = PrinterStatus_from_json(Wrap(norm.shape, norm.P, Without(norm.T, "UVTemp")))

\* C27: after a discovery reply that cannot be decoded as UTF-8 or has fewer
\* than 3 '|'-delimited fields, the session runs with a non-empty identity id
\* and the requested address: the URL opened is that of the requested
\* address and every command sent carries a non-empty MainboardID.
MalformedReply(reply) ==
    reply.got /\ (Undecodable(reply.data) \/ Len(Split(reply.data, "|")) < 3)
C27_MalformedReplyFallsBack ==
    (ident.step \notin {"off", "start"} /\ MalformedReply(ident.reply)) =>
        /\ ident.printer.id # <<>>
        /\ ident.printer.ip_address = ident.ip_address
        /\ ident.step \in {"connected", "failed", "sent"} =>
              ident.url = WsScheme \o ident.ip_address \o WsPath
        /\ ident.step = "sent" => ident.payload.Data.MainboardID # <<>>

\* C28: the payload _send_printer_cmd builds has MainboardID equal to the
\* identity id and Topic "sdcp/request/<id>", both still so after the trip
\* through json.dumps and json.loads, so that either field gives the id back;
\* Cmd is the requested code and self.printer is left as it was.
C28_EnvelopeRoundTrip ==
    [][(ident.step \in {"connected", "sent"} /\ ident'.step = "sent") =>
          /\ ident'.payload.Data.MainboardID = ident.printer.id
          /\ ident'.payload.Topic = TopicPrefix \o ident.printer.id
          /\ JsonLoadsText(ident'.wire.Data.MainboardID) = ident.printer.id
          /\ SubSeq(JsonLoadsText(ident'.wire.Topic), 1, Len(TopicPrefix)) = TopicPrefix
          /\ TopicId(JsonLoadsText(ident'.wire.Topic)) = ident.printer.id
          /\ ident'.payload.Data.Cmd = ident'.cmd
          /\ ident'.wire.Data.Cmd = ident'.cmd
          /\ ident'.printer = ident.printer]_vars
\* a command was sent under a discovered id that is a quote
C28_Witness ==
    /\ ident.step = "sent"
    /\ ident.printer.id = <<"\"">>
    /\ ident.payload.Data.Cmd = 300

\* C29: of the containers of a message that hold a non-empty PrintInfo dict,
\* the first in the order Data.Data, Data, StatusData, Status, PrintStatus,
\* state, top level is the one decoded, and later ones are ignored; the same
\* on its own for Temperature.
Holders(parts, kinds) ==
    {i \in 1..Len(ShapeOrder) :
        ShapeOrder[i] \in DOMAIN parts /\ parts[ShapeOrder[i]] \in kinds}
FirstOf(S) == CHOOSE i \in S : \A j \in S : i <= j
C29_FirstContainerWins ==
    (norm.done /\ norm.shape = "multi") =>
        LET prints == Holders(norm.parts, {"pi", "both"})
            temps == Holders(norm.parts, {"temp", "both", "empty_pi"})
        IN  /\ prints # {} =>
                  norm.status.print_info = PrintInfo_from_dict(PartPrint(FirstOf(prints)))
            /\ temps # {} =>
                  norm.status.temperature = Temperature_from_dict(PartTemp(FirstOf(temps)))

\* C30: when Data.Data is a dict without a PrintInfo (a Temperature) dict and
\* Data holds one, the one under Data is decoded.
C30_SinglyNestedStillTried ==
    (norm.done /\ norm.shape = "multi" /\ DOMAIN norm.parts = {"data_data", "data"}) =>
        /\ (norm.parts["data_data"] = "temp" /\ norm.parts["data"] \in {"pi", "both"}) =>
              norm.status.print_info = PrintInfo_from_dict(PartPrint(ShapeIndex("data")))
        /\ (norm.parts["data_data"] = "pi" /\ norm.parts["data"] \in {"temp", "both"}) =>
              norm.status.temperature = Temperature_from_dict(PartTemp(ShapeIndex("data")))

\* C31: is_printing is decided by the first key present in the order
\* IsPrinting, Printing, isPrinting, is_printing, Status alone (the payload
\* decodes as the one holding only that key does); under Status a text means
\* printing exactly when, lower-cased, it is running, printing or busy.
FirstPrintingKey(P) ==
    IsPrintingKeys[CHOOSE i \in 1..Len(IsPrintingKeys) :
                      /\ HasKey(P, IsPrintingKeys[i])
                      /\ \A j \in 1..(i - 1) : ~HasKey(P, IsPrintingKeys[j])]
C31_FirstPrintingKeyDecides ==
    (norm.done /\ norm.P \in PrintingPayloads) =>
        LET k == FirstPrintingKey(norm.P)
            x == norm.P.v[k]
            alone == PrintInfo_from_dict(JObj(k :> x))
        IN  /\ norm.status.print_info.is_printing = alone.is_printing
            /\ norm.status.print_info.status_code = alone.status_code
            /\ k # "Status" => norm.status.print_info.is_printing = PyBool(x)
            /\ (k = "Status" /\ x.t = "str") =>
                  (norm.status.print_info.is_printing
                      <=> x.v \in {Running, PRINTING, busy})
\* IsPrinting false came before Status 2, and a Status text in capitals
C31_Witness ==
    /\ norm.done
    /\ \/ /\ HasKey(norm.P, "IsPrinting") /\ norm.P.v["IsPrinting"] = JBool(FALSE)
          /\ HasKey(norm.P, "Status") /\ norm.P.v["Status"] = JInt(2)
          /\ ~norm.status.print_info.is_printing
       \/ /\ DOMAIN norm.P.v = {"Status"} /\ norm.P.v["Status"] = JStr(PRINTING)
          /\ norm.status.print_info.is_printing

\* C32: a malformed duration under an earlier key of remain_time or
\* total_time is skipped: the message decodes as it does without the
\* malformed entries, so the next well-formed key gives the value (0 when
\* there is none) and every other field is as it would be.
C32_MalformedDurationSkipped ==
    (norm.done /\ norm.P \in SkipPayloads) =>
        /\ norm.status
              = PrinterStatus_from_json(Wrap(norm.shape, WithoutMalformed(norm.P), norm.T))
        /\ norm.status.print_info.status_code = 2
        /\ \A ks \in SkipKeys :
              (HasKey(norm.P, ks[1]) /\ HasKey(norm.P, ks[3])
                  /\ norm.P.v[ks[1]] \in MalformedTimes
                  /\ (HasKey(norm.P, ks[2]) => norm.P.v[ks[2]] \in MalformedTimes)
                  /\ norm.P.v[ks[3]] = JStr(HMS(1, 0, 5))) =>
              3605 \in {norm.status.print_info.remain_time,
                        norm.status.print_info.total_time}
\* two malformed keys came before the well-formed third
C32_Witness ==
    /\ norm.done
    /\ HasKey(norm.P, "RemainTime") /\ norm.P.v["RemainTime"] = JStr(<<"1", ":", "x">>)
    /\ HasKey(norm.P, "TimeLeft") /\ norm.P.v["TimeLeft"] = JStr(<<":", ":">>)
    /\ HasKey(norm.P, "remain_time") /\ norm.P.v["remain_time"] = JStr(MS(1, 30))
    /\ norm.status.print_info.remain_time = 90

\* C33: uv_temp is the value of the first direct key with a convertible
\* value; only when no direct key matched, that of the first convertible child
\* key of the first parent among UV, UVPanel, Light that has one; else 0.
Convertible(d, keys) ==
    {i \in 1..Len(keys) : HasKey(d, keys[i]) /\ PyFloat(d.v[keys[i]]).ok}
FirstValue(d, keys) ==
    PyFloat(d.v[keys[CHOOSE i \in Convertible(d, keys) :
                          \A j \in Convertible(d, keys) : i <= j]]).val
MatchingParents(T) ==
    {i \in 1..Len(TempParentKeys) :
        /\ HasKey(T, TempParentKeys[i]) /\ IsDict(T.v[TempParentKeys[i]])
        /\ Convertible(T.v[TempParentKeys[i]], TempChildKeys) # {}}
FirstMatchTemp(T) ==
    IF Convertible(T, TempDirectKeys) # {} THEN FirstValue(T, TempDirectKeys)
    ELSE IF MatchingParents(T) # {}
    THEN FirstValue(T.v[TempParentKeys[CHOOSE i \in MatchingParents(T) :
                                          \A j \in MatchingParents(T) : i <= j]],
                    TempChildKeys)
    ELSE 0
C33_TemperatureFirstMatch ==
    (norm.done /\ norm.T \in TempPayloads) =>
        norm.status.temperature.uv_temp = FirstMatchTemp(norm.T)

\* C34: in every reachable state a connected session holds its connection
\* handle: is_connected (connected) implies printer_websocket is not None.
C34_ConnectedHoldsHandle ==
    is_connected => printer_websocket # NoConn

\* C35: in a session whose only connect() succeeded, a command that
\* get_status sends while the transport is open (again, after an error and
\* the automatic reconnect) is not refused as "not connected".
OnlyConnectSucceeded ==
    /\ conns[1] = "open" /\ 1 \notin timed_out
    /\ \A c \in ConnIds \ {1} : conns[c] = "unused"
C35_ReconnectRestoresSending ==
    [][(pc = "send" /\ ~in_connect /\ OnlyConnectSucceeded
           /\ Len(attempted') = Len(attempted) + 1) =>
          send_result' # "ConnectionError"]_vars

\* C36: when disconnect_printer() ran while the background connect was in
\* progress, then once that connect has finished the monitor is not
\* connected, no connection of it is running and the status timer is stopped.
C36_DisconnectDuringConnect ==
    (ui.disconnected = "during" /\ ConnectFinished) =>
        /\ ~is_connected
        /\ \A c \in ConnIds : ~LoopRunning(c)
        /\ ~ui.timer

\* C37: _parse_response does not raise, and a text that is valid JSON but no
\* object, or an object whose Topic is no text, is dropped: the latest status,
\* last_updated and the session (is_connected, printer_websocket, the
\* connection) are as before.
NotAnObject == {"array", "number", "string", "null"}
TopicNotText == {"topic_five", "topic_zero"}
C37_OddTextsDropped ==
    [][\A c \in ConnIds, text \in NotAnObject \cup TopicNotText :
          WsMessage(c, text)
          => /\ UNCHANGED <<printer_data, is_connected, printer_websocket>>
             /\ c \notin stamping'
             /\ conns'[c] = "open"]_vars

\* C38: for every PrintInfo with is_printing true the time derivation of
\* update_printer_status_ui completes: no division by zero, whatever the
\* layer counts and the two times are.
C38_NoDivisionByZero ==
    (norm.done /\ norm.print_info.is_printing) => ~norm.panel.raised

\* C39: whenever the stored PrintInfo has is_printing true, the status text
\* derived from its status_code is Preparing, Printing or Finishing, never
\* Idle (nor Unknown).
C39_StatusTextMatchesPrinting ==
    (norm.done /\ norm.status.print_info.is_printing) =>
        CoarseStatus(norm.status.print_info.status_code)
            \in {"Preparing to print", "Printing", "Finishing"}

====
